---- MODULE Spec2Model ----
(***************************************************************************)
(* Compliance analysis pipeline of the regulation-aware site auditor       *)
(* (Day-9 backend): ComplianceScanner, IssueMapper, RemediationAdvisor and *)
(* MultiAgentComplianceAuditor.audit_website_with_agents.                  *)
(*                                                                         *)
(* A document is what BeautifulSoup(html_content) exposes to the rule      *)
(* checks.  The model keeps, per document, exactly the facts the checks    *)
(* read.  The documents enumerated are those of one HTML layout:           *)
(*   <html><head> [<title>Home</title>]                                    *)
(*                [<meta name="description" content="A page">]             *)
(*                [<script src="https://cdn.example/x.js">]* </head>       *)
(*   <body> [<div id="cookie-banner">] [<a href="/privacy">Privacy</a>]    *)
(*          [<p>contact us</p>] [<img src="a.png" alt="" class="photo">]*  *)
(*          [<h1>Welcome</h1>]* [<input type="text" name="q">]*            *)
(*          [<a href="/more">click here</a>]* [<a>x</a>]*                  *)
(*          [<main>] [<nav>] </body></html>                                *)
(* so every counted element is a direct child of <body>.                   *)
(***************************************************************************)
EXTENDS Integers, Sequences, FiniteSets, TLC

VARIABLES
    website,       \* the request: [url, doc] handed to the operation
    narrator,      \* the external collaborator: outcome of each role's call
    pc,            \* position of the caller
    violations,    \* ComplianceScanner.violations of the scanner instance
    returned,      \* outcome of the last scan_website call
    previous,      \* the request and outcome of the scan before the last
    mapped_issues, \* list returned by map_violations_to_elements
    report,        \* dict returned by generate_compliance_report
    audit,         \* outcome of audit_website_with_agents
    extraction,    \* the last call of a narrative extractor: role, texts, outcome
    runs,          \* the audit requests in flight, each with its own auditor
    fix_plan       \* dict returned by generate_remediation_plan

vars == <<website, narrator, pc, violations, returned, previous,
          mapped_issues, report, audit, extraction, runs, fix_plan>>

-----------------------------------------------------------------------------
(* Bounds of the enumerated inputs *)

MaxImages == 3
MaxDefects == 2
MaxScanDefects == 1
MaxLines == 2
MaxRepeats == 7
MaxIssues == 3
MaxRuns == 2

(* Program constants *)

LandmarkMinimum == 2
SingleH1 == 1
critical_penalty == 30
high_penalty == 20
medium_penalty == 10
low_penalty == 5
max_possible_score == 100
GenericFixPriority == 5
DefaultHours == 2
DefaultDays == 1
HoursPerDay == 8
MinViolationSentence == 15
MinLegalSentence == 20
MinRiskSentence == 15
LegalSectionCap == 5
RiskFactorCap == 6
PenaltyCap == 4
MinActionLength == 15
HighRiskMany == 2
MediumRiskMany == 3

-----------------------------------------------------------------------------
(* Inputs *)

UrlHttps == "https://site.example"
UrlHttp == "http://site.example"
\* WebsiteData.url is a validated str: the address the scraper fetched.
Urls == {UrlHttps, UrlHttp}

Documents ==
    [ cookie_banner    : BOOLEAN,        \* element with id/class *cookie*, *consent*, *gdpr*
      privacy_link     : BOOLEAN,        \* <a> whose text or href matches /privacy/i
      contact_text     : BOOLEAN,        \* text node matching /contact|email|phone/i
      images_no_alt    : 0..MaxImages,   \* <img> with empty alt and no aria-label
      h1_count         : 0..(SingleH1 + 1), \* none, one, more than one
      unlabeled_inputs : 0..1,           \* text inputs with no label / aria-label
      generic_links    : 0..1,           \* <a href> with text such as "click here"
      no_keyboard      : 0..1,           \* <a> without href, or tabindex="-1"
      landmarks        : (LandmarkMinimum - 1)..LandmarkMinimum,
      external_scripts : 0..1,           \* <script src="http..."> not under url
      meta_description : BOOLEAN,
      title            : BOOLEAN ]

Websites == [url : Urls, doc : Documents]

Severities == {"critical", "high", "medium", "low"}

-----------------------------------------------------------------------------
(* services/compliance_scanner.py *)

ComplianceViolation(type, severity, element, description, regulation, recommendation) ==
    [ type |-> type, severity |-> severity, element |-> element,
      description |-> description, regulation |-> regulation,
      xpath |-> "", recommendation |-> recommendation ]

\* Outcome of a call: the list it leaves or returns, or the exception raised.
\* error is str(e), exc the exception's class.
Returned(vs) == [raised |-> FALSE, exc |-> "", error |-> "", value |-> vs]
Raised(exc, err, vs) == [raised |-> TRUE, exc |-> exc, error |-> err, value |-> vs]

_check_gdpr_compliance(vs, doc) ==
    LET v1 == IF ~doc.cookie_banner
              THEN Append(vs, ComplianceViolation("gdpr_cookie_banner", "critical", "document",
                       "Missing cookie consent banner required by GDPR Article 7",
                       "GDPR Article 7",
                       "Implement cookie consent banner with accept/reject options"))
              ELSE vs
        v2 == IF ~doc.privacy_link
              THEN Append(v1, ComplianceViolation("gdpr_privacy_policy", "high", "navigation",
                       "Missing privacy policy link required by GDPR Article 13",
                       "GDPR Article 13",
                       "Add visible privacy policy link in footer or header"))
              ELSE v1
        v3 == IF ~doc.contact_text
              THEN Append(v2, ComplianceViolation("gdpr_contact_info", "medium", "document",
                       "Missing data controller contact information",
                       "GDPR Article 13",
                       "Provide clear contact information for data protection queries"))
              ELSE v2
    IN  Returned(v3)

_check_wcag_compliance(vs, doc) ==
    LET missing_alt == doc.images_no_alt
        v1 == IF missing_alt > 0
              THEN Append(vs, ComplianceViolation("wcag_missing_alt", "high",
                       ToString(missing_alt) \o " images",
                       "Images missing alt text: " \o ToString(missing_alt) \o " violations",
                       "WCAG 2.1 Success Criterion 1.1.1",
                       "Add descriptive alt text to all images"))
              ELSE vs
        v2 == IF doc.h1_count = 0
              THEN Append(v1, ComplianceViolation("wcag_missing_h1", "high", "document",
                       "Missing main heading (h1) element",
                       "WCAG 2.1 Success Criterion 1.3.1",
                       "Add a descriptive h1 heading to the page"))
              ELSE IF doc.h1_count > SingleH1
              THEN Append(v1, ComplianceViolation("wcag_multiple_h1", "medium", "document",
                       "Multiple h1 elements found (" \o ToString(doc.h1_count) \o ")",
                       "WCAG 2.1 Success Criterion 1.3.1",
                       "Use only one h1 element per page"))
              ELSE v1
        v3 == IF doc.unlabeled_inputs > 0
              THEN Append(v2, ComplianceViolation("wcag_unlabeled_inputs", "high",
                       ToString(doc.unlabeled_inputs) \o " form inputs",
                       "Form inputs without proper labels: "
                           \o ToString(doc.unlabeled_inputs) \o " violations",
                       "WCAG 2.1 Success Criterion 1.3.1",
                       "Add proper labels or aria-label attributes to all form inputs"))
              ELSE v2
        v4 == IF doc.generic_links > 0
              THEN Append(v3, ComplianceViolation("wcag_generic_links", "medium",
                       ToString(doc.generic_links) \o " links",
                       "Links with non-descriptive text: "
                           \o ToString(doc.generic_links) \o " violations",
                       "WCAG 2.1 Success Criterion 2.4.4",
                       "Use descriptive link text that indicates the link's purpose"))
              ELSE v3
    IN  Returned(v4)

\* _check_ada_compliance asking for more than LandmarkMinimum landmarks (the
\* mutation).
_check_ada_compliance_off_by_one(vs, doc) ==
    LET v1 == IF doc.no_keyboard > 0
              THEN Append(vs, ComplianceViolation("ada_keyboard_access", "high",
                       ToString(doc.no_keyboard) \o " interactive elements",
                       "Interactive elements not accessible via keyboard",
                       "ADA Title III - Keyboard Accessibility",
                       "Ensure all interactive elements are keyboard accessible"))
              ELSE vs
        v2 == IF doc.landmarks <= LandmarkMinimum
              THEN Append(v1, ComplianceViolation("ada_missing_landmarks", "medium",
                       "document structure",
                       "Insufficient ARIA landmarks for screen reader navigation",
                       "ADA Title III - Screen Reader Accessibility",
                       "Add semantic HTML5 elements or ARIA landmark roles"))
              ELSE v1
    IN  Returned(v2)

_check_ada_compliance(vs, doc) ==
    LET v1 == IF doc.no_keyboard > 0
              THEN Append(vs, ComplianceViolation("ada_keyboard_access", "high",
                       ToString(doc.no_keyboard) \o " interactive elements",
                       "Interactive elements not accessible via keyboard",
                       "ADA Title III - Keyboard Accessibility",
                       "Ensure all interactive elements are keyboard accessible"))
              ELSE vs
        v2 == IF doc.landmarks < LandmarkMinimum
              THEN Append(v1, ComplianceViolation("ada_missing_landmarks", "medium",
                       "document structure",
                       "Insufficient ARIA landmarks for screen reader navigation",
                       "ADA Title III - Screen Reader Accessibility",
                       "Add semantic HTML5 elements or ARIA landmark roles"))
              ELSE v1
    IN  Returned(v2)

\* _check_security_compliance without the HTTPS check (the mutation).
_check_security_compliance_any_scheme(vs, url, doc) ==
    IF doc.external_scripts > 0
    THEN Returned(Append(vs, ComplianceViolation("security_external_scripts", "medium",
                       ToString(doc.external_scripts) \o " external scripts",
                       "External scripts may pose security risks",
                       "Security Best Practices",
                       "Review and validate all external script sources")))
    ELSE Returned(vs)

\* url.startswith('https://')
_check_security_compliance(vs, url, doc) ==
    LET v1 == IF url # UrlHttps
              THEN Append(vs, ComplianceViolation("security_no_https", "critical", "protocol",
                       "Website not served over HTTPS",
                       "Data Protection - Encryption in Transit",
                       "Implement SSL/TLS certificate and redirect HTTP to HTTPS"))
              ELSE vs
        v2 == IF doc.external_scripts > 0
              THEN Append(v1, ComplianceViolation("security_external_scripts", "medium",
                       ToString(doc.external_scripts) \o " external scripts",
                       "External scripts may pose security risks",
                       "Security Best Practices",
                       "Review and validate all external script sources"))
              ELSE v1
    IN  Returned(v2)

_check_seo_compliance(vs, doc) ==
    LET v1 == IF ~doc.meta_description
              THEN Append(vs, ComplianceViolation("seo_missing_meta_desc", "low", "meta tags",
                       "Missing meta description",
                       "SEO Best Practices",
                       "Add descriptive meta description (150-160 characters)"))
              ELSE vs
        v2 == IF ~doc.title
              THEN Append(v1, ComplianceViolation("seo_missing_title", "medium", "title tag",
                       "Missing or empty title tag",
                       "SEO Best Practices",
                       "Add descriptive page title"))
              ELSE v1
    IN  Returned(v2)

\* The checks scan_website calls, in the order of its statements.
\* The checks with the SEO check moved to the front (the mutation).
scan_checks_seo_first == <<"seo", "gdpr", "wcag", "ada", "security">>

scan_checks == <<"gdpr", "wcag", "ada", "security", "seo">>

run_check(check, vs, url, doc) ==
    CASE check = "gdpr"     -> _check_gdpr_compliance(vs, doc)
      [] check = "wcag"     -> _check_wcag_compliance(vs, doc)
      [] check = "ada"      -> _check_ada_compliance(vs, doc)
      [] check = "security" -> _check_security_compliance(vs, url, doc)
      [] check = "seo"      -> _check_seo_compliance(vs, doc)

\* Statements run in sequence, each check on what the previous one left in
\* self.violations; an exception ends the call there.
RECURSIVE run_checks(_, _, _, _)
run_checks(checks, outcome, url, doc) ==
    IF checks = <<>> \/ outcome.raised THEN outcome
    ELSE run_checks(Tail(checks), run_check(Head(checks), outcome.value, url, doc), url, doc)

\* scan_website without the reset of self.violations (the mutation).
scan_website_no_reset(self_violations, url, doc) ==
    run_checks(scan_checks, Returned(self_violations), url, doc)

\* scan_website(url, html_content, website_data) on an instance whose
\* self.violations is self_violations: the list is reset, then the checks run.
\* .value is self.violations afterwards, and the list returned when .raised
\* is FALSE.
scan_website(self_violations, url, doc) ==
    run_checks(scan_checks, Returned(<<>>), url, doc)

RECURSIVE CountSeverity(_, _)
CountSeverity(vs, sev) ==
    IF vs = <<>> THEN 0
    ELSE (IF Head(vs).severity = sev THEN 1 ELSE 0) + CountSeverity(Tail(vs), sev)

get_severity_breakdown(self_violations) ==
    [sev \in Severities |-> CountSeverity(self_violations, sev)]

-----------------------------------------------------------------------------
(* services/issue_mapper.py *)

\* `pattern in text` for the strings of this module: the pairs for which the
\* Python substring test is true.
SubstringPairs ==
    { <<"gdpr_cookie_banner", "gdpr_cookie">>,
      <<"wcag_missing_alt", "wcag_missing_alt">>,
      <<"wcag_unlabeled_inputs", "wcag_unlabeled_inputs">>,
      <<"ada_keyboard_access", "ada_keyboard">>,
      <<"security_no_https", "security_no_https">>,
      <<"GDPR Article 7 - Conditions for consent", "GDPR">>,
      <<"GDPR Article 32 - Security of processing", "GDPR">>,
      <<"GDPR Article 13", "GDPR">>,
      <<"WCAG 2.1 Success Criterion 1.1.1 - Non-text Content", "WCAG">>,
      <<"WCAG 2.1 Success Criterion 1.3.1 - Info and Relationships", "WCAG">>,
      <<"WCAG 2.1 Success Criterion 2.1.1 - Keyboard", "WCAG">>,
      <<"WCAG 2.1 Success Criterion 1.3.1", "WCAG">>,
      <<"WCAG 2.1 Success Criterion 2.4.4", "WCAG">>,
      <<"ADA Title III - Screen Reader Accessibility", "ADA">>,
      <<"ADA Title III - Keyboard Accessibility", "ADA">>,
      <<"gdpr_cookie_banner", "gdpr_cookie_banner">>,
      <<"ada_keyboard_access", "ada_keyboard_access">>,
      <<"seo_missing_meta_desc", "seo_missing_meta">>,
      <<"GDPR Cookie Consent Banner", "GDPR Cookie Consent Banner">>,
      <<"HTTPS Security", "HTTPS Security">>,
      <<"Image Alt Text", "Image Alt Text">>,
      <<"Form Input Labels", "Form Input Labels">>,
      <<"Keyboard Accessibility", "Keyboard Accessibility">>,
      <<"SEO Meta Tags", "SEO Meta Tags">>,
      <<"External scripts may pose security risks", "security">>,
      <<"security_no_https", "security">>,
      <<"security_external_scripts", "security">> }

Contains(text, pattern) == <<text, pattern>> \in SubstringPairs

business_impact_levels ==
    [ critical |-> "Legal liability, potential lawsuits, immediate compliance action required",
      high     |-> "Significant user accessibility barriers, compliance violations",
      medium   |-> "User experience issues, potential compliance gaps",
      low      |-> "Minor usability issues, best practice improvements" ]

MappedIssue(element_type, element_xpath, element_selector, issue_type, regulation_reference, severity_level, business_impact, fix_priority, estimated_fix_time) ==
    [ element_type |-> element_type, element_xpath |-> element_xpath,
      element_selector |-> element_selector, issue_type |-> issue_type,
      regulation_reference |-> regulation_reference, severity_level |-> severity_level,
      business_impact |-> business_impact, fix_priority |-> fix_priority,
      estimated_fix_time |-> estimated_fix_time ]

\* The consent issue named by the type of its violation (the mutation).
_map_cookie_consent_issue_typed(doc, violation) ==
    MappedIssue("Cookie Consent Banner", "//body", "body",
                violation.type,
                "GDPR Article 7 - Conditions for consent",
                "critical", business_impact_levels["critical"], 1, "1-2 days")

_map_cookie_consent_issue(doc, violation) ==
    MappedIssue("Cookie Consent Banner", "//body", "body",
                "Missing GDPR-compliant cookie consent mechanism",
                "GDPR Article 7 - Conditions for consent",
                "critical", business_impact_levels["critical"], 1, "1-2 days")

\* In the layout, the images without alt are the images with alt="" (they carry
\* a class, so the second find_all adds none); the first is the first <img>
\* child of <body>.
_map_alt_text_issues(doc, violation) ==
    LET images_without_alt == doc.images_no_alt
        xpath == IF images_without_alt = 0 THEN "//img[not(@alt)]"
                 ELSE IF images_without_alt > 1 THEN "//body/img[1]" ELSE "//body/img"
        selector == IF images_without_alt = 0 THEN "img:not([alt])" ELSE "img.photo"
    IN  MappedIssue("Image Elements", xpath, selector,
                    "Missing alternative text for " \o ToString(images_without_alt) \o " images",
                    "WCAG 2.1 Success Criterion 1.1.1 - Non-text Content",
                    "high", business_impact_levels["high"], 2, "2-4 hours")

_map_form_label_issues(doc, violation) ==
    LET unlabeled_inputs == doc.unlabeled_inputs
        xpath == IF unlabeled_inputs = 0
                 THEN "//input[not(@aria-label) and not(@id) or @id and not(//label[@for=current()/@id])]"
                 ELSE IF unlabeled_inputs > 1 THEN "//body/input[1]" ELSE "//body/input"
        selector == IF unlabeled_inputs = 0
                    THEN "input:not([aria-label]):not([id]), input[id]:not([id]:has(~ label[for]))"
                    ELSE "input"
    IN  MappedIssue("Form Input Elements", xpath, selector,
                    "Form inputs without proper labels: " \o ToString(unlabeled_inputs)
                        \o " violations",
                    "WCAG 2.1 Success Criterion 1.3.1 - Info and Relationships",
                    "high", business_impact_levels["high"], 3, "1-3 hours")

_map_keyboard_access_issues(doc, violation) ==
    MappedIssue("Interactive Elements", "//a[not(@href)] | //*[@tabindex='-1']",
                "a:not([href]), [tabindex='-1']",
                "Interactive elements not accessible via keyboard",
                "WCAG 2.1 Success Criterion 2.1.1 - Keyboard",
                "high", business_impact_levels["high"], 4, "2-6 hours")

\* The transport issue with a severity of its own (the mutation).
_map_security_issues_high(doc, violation) ==
    MappedIssue("Protocol Security", "//html", "html",
                "Website not served over HTTPS",
                "GDPR Article 32 - Security of processing",
                "high", business_impact_levels["high"], 1,
                "1 day (SSL certificate setup)")

_map_security_issues(doc, violation) ==
    MappedIssue("Protocol Security", "//html", "html",
                "Website not served over HTTPS",
                "GDPR Article 32 - Security of processing",
                "critical", business_impact_levels["critical"], 1,
                "1 day (SSL certificate setup)")

\* The generic mapping with the most urgent priority (the mutation).
_map_generic_issue_urgent(doc, violation) ==
    MappedIssue("General Compliance", "//body", "body",
                violation.description, violation.regulation, violation.severity,
                business_impact_levels[violation.severity], 1, "Variable")

_map_generic_issue(doc, violation) ==
    MappedIssue("General Compliance", "//body", "body",
                violation.description, violation.regulation, violation.severity,
                business_impact_levels[violation.severity],
                GenericFixPriority, "Variable")

_create_mapped_issue(doc, violation) ==
    LET issue_type == violation.type
    IN  IF Contains(issue_type, "gdpr_cookie")
        THEN _map_cookie_consent_issue(doc, violation)
        ELSE IF Contains(issue_type, "wcag_missing_alt")
        THEN _map_alt_text_issues(doc, violation)
        ELSE IF Contains(issue_type, "wcag_unlabeled_inputs")
        THEN _map_form_label_issues(doc, violation)
        ELSE IF Contains(issue_type, "ada_keyboard")
        THEN _map_keyboard_access_issues(doc, violation)
        ELSE IF Contains(issue_type, "security_no_https")
        THEN _map_security_issues(doc, violation)
        ELSE _map_generic_issue(doc, violation)

\* list.sort(key=lambda x: x.fix_priority): stable, ascending.
RECURSIVE InsertByPriority(_, _)
InsertByPriority(sorted, issue) ==
    IF sorted = <<>> THEN <<issue>>
    ELSE IF Head(sorted).fix_priority <= issue.fix_priority
         THEN <<Head(sorted)>> \o InsertByPriority(Tail(sorted), issue)
         ELSE <<issue>> \o sorted

RECURSIVE SortByPriority(_)
SortByPriority(issues) ==
    IF issues = <<>> THEN <<>>
    ELSE InsertByPriority(SortByPriority(SubSeq(issues, 1, Len(issues) - 1)),
                          issues[Len(issues)])

\* map_violations_to_elements without the final sort (the mutation).
map_violations_to_elements_unsorted(doc, vs) ==
    [i \in 1..Len(vs) |-> _create_mapped_issue(doc, vs[i])]

map_violations_to_elements(doc, vs) ==
    SortByPriority([i \in 1..Len(vs) |-> _create_mapped_issue(doc, vs[i])])

RECURSIVE SelectSeverity(_, _)
SelectSeverity(issues, sevs) ==
    IF issues = <<>> THEN <<>>
    ELSE (IF Head(issues).severity_level \in sevs THEN <<Head(issues)>> ELSE <<>>)
         \o SelectSeverity(Tail(issues), sevs)

create_remediation_priority_matrix(issues) ==
    [ critical_immediate |-> SelectSeverity(issues, {"critical"}),
      high_priority      |-> SelectSeverity(issues, {"high"}),
      medium_priority    |-> SelectSeverity(issues, {"medium"}),
      low_priority       |-> SelectSeverity(issues, Severities \ {"critical", "high", "medium"}) ]

RECURSIVE CountRegulation(_, _)
CountRegulation(issues, family) ==
    IF issues = <<>> THEN 0
    ELSE (IF Contains(Head(issues).regulation_reference, family) THEN 1 ELSE 0)
         + CountRegulation(Tail(issues), family)

_calculate_total_fix_time(issues) ==
    LET total_hours == Len(SelectSeverity(issues, {"critical"})) * 8
                       + Len(SelectSeverity(issues, {"high"})) * 4
                       + Len(SelectSeverity(issues, {"medium"})) * 2
                       + Len(SelectSeverity(issues, {"low"})) * 1
    IN  IF total_hours <= 8 THEN ToString(total_hours) \o " hours"
        ELSE IF total_hours <= 40 THEN ToString(total_hours \div 8) \o " days"
        ELSE ToString(total_hours \div 40) \o " weeks"

severity_counts(issues) ==
    [sev \in Severities |-> Len(SelectSeverity(issues, {sev}))]

total_penalty(issues) ==
    LET counts == severity_counts(issues)
    IN  counts["critical"] * critical_penalty + counts["high"] * high_penalty
        + counts["medium"] * medium_penalty + counts["low"] * low_penalty

Max(a, b) == IF a >= b THEN a ELSE b

\* The score without the clamp at 0 (the mutation).
compliance_score_unclamped(issues) == max_possible_score - total_penalty(issues)

\* The score with the high penalty applied to critical issues too (the mutation).
compliance_score_flat(issues) ==
    LET counts == severity_counts(issues)
    IN  Max(0, max_possible_score
               - (counts["critical"] * high_penalty + counts["high"] * high_penalty
                  + counts["medium"] * medium_penalty + counts["low"] * low_penalty))

compliance_score(issues) == Max(0, max_possible_score - total_penalty(issues))

generate_compliance_report(issues) ==
    [ total_issues       |-> Len(issues),
      severity_breakdown |-> severity_counts(issues),
      compliance_score   |-> compliance_score(issues),
      regulation_coverage |-> [ gdpr |-> CountRegulation(issues, "GDPR"),
                                wcag |-> CountRegulation(issues, "WCAG"),
                                ada  |-> CountRegulation(issues, "ADA") ],
      estimated_fix_time |-> _calculate_total_fix_time(issues),
      priority_matrix    |-> create_remediation_priority_matrix(issues) ]

-----------------------------------------------------------------------------
(* services/remediation_advisor.py *)

\* The fixes keep the fields the plan is computed from; code_example and
\* implementation_steps are literals of each template.
RemediationFix(issue_type, fix_description, testing_instructions, estimated_time) ==
    [ issue_type |-> issue_type, fix_description |-> fix_description,
      testing_instructions |-> testing_instructions, estimated_time |-> estimated_time ]

\* fix_templates, in dict order: <<pattern, fix>>.
fix_templates ==
    << <<"gdpr_cookie_banner",
         RemediationFix("GDPR Cookie Consent Banner",
            "Implement GDPR-compliant cookie consent banner with accept/reject options",
            "Test banner appearance, accept/reject functionality, and verify cookies are set correctly",
            "4 hours")>>,
       <<"wcag_missing_alt",
         RemediationFix("Image Alt Text",
            "Add descriptive alt text to all images for screen reader accessibility",
            "Use NVDA or JAWS screen reader to verify alt text is read correctly",
            "3 hours")>>,
       <<"wcag_unlabeled_inputs",
         RemediationFix("Form Input Labels",
            "Add proper labels to all form inputs for accessibility",
            "Navigate form using only keyboard and verify all fields are properly announced by screen readers",
            "2 hours")>>,
       <<"ada_keyboard_access",
         RemediationFix("Keyboard Accessibility",
            "Ensure all interactive elements are accessible via keyboard navigation",
            "Navigate entire site using only Tab, Enter, Space, and Arrow keys",
            "4 hours")>>,
       <<"security_no_https",
         RemediationFix("HTTPS Security",
            "Implement HTTPS with proper SSL certificate",
            "Use SSL Labs SSL Test to verify certificate installation and security grade",
            "1 day")>>,
       <<"seo_missing_meta",
         RemediationFix("SEO Meta Tags",
            "Add proper meta tags for SEO optimization",
            "Use Facebook Sharing Debugger and Twitter Card Validator to test social media previews",
            "3 hours")>> >>

RECURSIVE FirstTemplate(_, _)
FirstTemplate(templates, issue_type) ==
    IF templates = <<>>
    THEN RemediationFix(issue_type, "General compliance improvement needed",
                        "Verify compliance using accessibility testing tools", "2 hours")
    ELSE IF Contains(issue_type, Head(templates)[1]) THEN Head(templates)[2]
         ELSE FirstTemplate(Tail(templates), issue_type)

_generate_specific_fix(issue_type, issue) == FirstTemplate(fix_templates, issue_type)

\* The estimated_time strings of the six templates and of the generic fix.
EffortStrings == {"2 hours", "3 hours", "4 hours", "1 day"}

\* 'hour' in time_str, 'day' in time_str
HoldsHour(time_str) == time_str \in {"2 hours", "3 hours", "4 hours"}
HoldsDay(time_str) == time_str = "1 day"

\* time_str.split()[0]
FirstWord(time_str) ==
    CASE time_str = "2 hours" -> "2"
      [] time_str = "3 hours" -> "3"
      [] time_str = "4 hours" -> "4"
      [] time_str = "1 day"   -> "1"

\* str.isdigit() and int() of a word
isdigit(word) == word \in {"1", "2", "3", "4"}
IntOf(word) ==
    CASE word = "1" -> 1 [] word = "2" -> 2 [] word = "3" -> 3 [] word = "4" -> 4

\* A day counted as one hour (the mutation): no `* 8`.
EffortHours_day_as_hour(time_str) ==
    IF HoldsHour(time_str)
    THEN (IF isdigit(FirstWord(time_str)) THEN IntOf(FirstWord(time_str)) ELSE DefaultHours)
    ELSE IF HoldsDay(time_str)
    THEN (IF isdigit(FirstWord(time_str)) THEN IntOf(FirstWord(time_str)) ELSE DefaultDays)
    ELSE 0

\* Hours added to total_estimated_time for a fix's estimated_time string:
\* int(first word), or DefaultHours, when the string holds 'hour'; 8 times
\* int(first word), or DefaultDays, when it holds 'day'; nothing otherwise.
EffortHours(time_str) ==
    IF HoldsHour(time_str)
    THEN (IF isdigit(FirstWord(time_str)) THEN IntOf(FirstWord(time_str)) ELSE DefaultHours)
    ELSE IF HoldsDay(time_str)
    THEN (IF isdigit(FirstWord(time_str)) THEN IntOf(FirstWord(time_str)) ELSE DefaultDays)
         * HoursPerDay
    ELSE 0

RECURSIVE SumEffort(_)
SumEffort(fixes) ==
    IF fixes = <<>> THEN 0 ELSE EffortHours(Head(fixes).estimated_time) + SumEffort(Tail(fixes))

priority_order_names ==
    << "GDPR Cookie Consent Banner", "HTTPS Security", "Image Alt Text",
       "Form Input Labels", "Keyboard Accessibility", "SEO Meta Tags" >>

InSeq(x, seq) == \E i \in 1..Len(seq) : seq[i] = x

\* One loop over the fixes: appends, in list order, the issue_type of every
\* fix that passes and is not yet in prioritized.  The fixes appended are
\* those that pass, are not in prioritized before the loop and are the first
\* of their issue_type in the list.
AppendMatching(prioritized, fixes, priority_type) ==
    LET appended == {i \in 1..Len(fixes) :
                        /\ priority_type = "" \/ Contains(fixes[i].issue_type, priority_type)
                        /\ ~InSeq(fixes[i].issue_type, prioritized)
                        /\ \A j \in 1..(i - 1) : fixes[j].issue_type # fixes[i].issue_type}
    IN  prioritized
        \o [n \in 1..Cardinality(appended) |->
               fixes[CHOOSE i \in appended : Cardinality({j \in appended : j < i}) = n - 1]
                   .issue_type]

RECURSIVE PrioritizeBy(_, _, _)
PrioritizeBy(prioritized, fixes, priority_types) ==
    IF priority_types = <<>> THEN prioritized
    ELSE PrioritizeBy(AppendMatching(prioritized, fixes, Head(priority_types)),
                      fixes, Tail(priority_types))

\* The kinds in order of first appearance only (the mutation).
_prioritize_fixes_by_appearance(fixes) == AppendMatching(<<>>, fixes, "")

\* The trailing loop adds every remaining fix (priority_type "" passes all).
_prioritize_fixes(fixes) ==
    AppendMatching(PrioritizeBy(<<>>, fixes, priority_order_names), fixes, "")

critical_fixes == {"GDPR Cookie Consent Banner", "HTTPS Security"}
high_fixes == {"Image Alt Text", "Form Input Labels", "Keyboard Accessibility"}

PhaseOf(fix) ==
    IF \E c \in critical_fixes : Contains(fix.issue_type, c) THEN "phase_1_critical"
    ELSE IF \E h \in high_fixes : Contains(fix.issue_type, h) THEN "phase_2_high"
    ELSE "phase_3_medium"

RECURSIVE PhaseTypes(_, _)
PhaseTypes(fixes, phase) ==
    IF fixes = <<>> THEN <<>>
    ELSE (IF PhaseOf(Head(fixes)) = phase THEN <<Head(fixes).issue_type>> ELSE <<>>)
         \o PhaseTypes(Tail(fixes), phase)

_create_implementation_roadmap(fixes) ==
    [ phase_1_critical |-> PhaseTypes(fixes, "phase_1_critical"),
      phase_2_high     |-> PhaseTypes(fixes, "phase_2_high"),
      phase_3_medium   |-> PhaseTypes(fixes, "phase_3_medium") ]

\* generate_remediation_plan keeping only the fixes of a template (the mutation).
generate_remediation_plan_known_only(issues) ==
    LET known == SelectSeq(issues, LAMBDA issue :
                     \E k \in 1..Len(fix_templates) : Contains(issue.issue_type, fix_templates[k][1]))
        fixes == [i \in 1..Len(known) |-> _generate_specific_fix(known[i].issue_type, known[i])]
    IN  [ fixes |-> fixes,
          total_fixes |-> Len(fixes),
          estimated_total_time |-> ToString(SumEffort(fixes)) \o " hours",
          priority_order |-> _prioritize_fixes(fixes),
          implementation_roadmap |-> _create_implementation_roadmap(fixes) ]

generate_remediation_plan(issues) ==
    LET fixes == [i \in 1..Len(issues) |-> _generate_specific_fix(issues[i].issue_type, issues[i])]
    IN  [ fixes |-> fixes,
          total_fixes |-> Len(fixes),
          estimated_total_time |-> ToString(SumEffort(fixes)) \o " hours",
          priority_order |-> _prioritize_fixes(fixes),
          implementation_roadmap |-> _create_implementation_roadmap(fixes) ]

-----------------------------------------------------------------------------
(* services/multi_agent_auditor.py *)

\* The tasks of the crew, in the order _create_agent_tasks appends them.
\* Each is one call of the external collaborator.
AgentTasks == <<"compliance_task", "legal_task", "security_task", "mapping_task", "roadmap_task">>
TaskNames == {AgentTasks[i] : i \in 1..Len(AgentTasks)}
\* The four roles the Crew is built with (agents=[...]).
CrewRoles == {"compliance_task", "legal_task", "mapping_task", "roadmap_task"}
\* A call of the collaborator returns text ("ok") or raises ("fail": an error
\* or a timeout of the underlying request).
TaskOutcomes == [TaskNames -> {"ok", "fail"}]

\* violation.type.split('_')[0]
violation_category(type) ==
    CASE type \in {"gdpr_cookie_banner", "gdpr_privacy_policy", "gdpr_contact_info"} -> "gdpr"
      [] type \in {"wcag_missing_alt", "wcag_missing_h1", "wcag_multiple_h1",
                   "wcag_unlabeled_inputs", "wcag_generic_links"} -> "wcag"
      [] type \in {"ada_keyboard_access", "ada_missing_landmarks"} -> "ada"
      [] type \in {"security_no_https", "security_external_scripts"} -> "security"
      [] OTHER -> "seo"

\* remediation_plan[key]: a dict lookup raises KeyError for a key the dict lacks.
HasKey(dict, key) == key \in DOMAIN dict

\* The summary built without the two counts the plan does not carry (the
\* mutation).
_create_technical_summary_without_counts(vs, issues, remediation_plan) ==
    Returned(
        [ website    |-> IF vs = <<>> THEN "Unknown" ELSE vs[1].element,
          violations |-> Len(vs),
          mapped     |-> Len(issues),
          solutions  |-> remediation_plan.total_fixes,
          categories |-> {violation_category(vs[i].type) : i \in 1..Len(vs)},
          gdpr       |-> CountRegulation(issues, "GDPR"),
          wcag       |-> CountRegulation(issues, "WCAG"),
          ada        |-> CountRegulation(issues, "ADA"),
          estimated_total_time |-> remediation_plan.estimated_total_time ])

\* The summary is kept as its header, regulation and remediation lines; the
\* per-category lines are represented by the categories found.
_create_technical_summary(vs, issues, remediation_plan) ==
    IF ~HasKey(remediation_plan, "auto_implementable")
    THEN Raised("KeyError", "'auto_implementable'", <<>>)
    ELSE IF ~HasKey(remediation_plan, "manual_fixes")
    THEN Raised("KeyError", "'manual_fixes'", <<>>)
    ELSE Returned(
        [ website    |-> IF vs = <<>> THEN "Unknown" ELSE vs[1].element,
          violations |-> Len(vs),
          mapped     |-> Len(issues),
          solutions  |-> remediation_plan.total_fixes,
          categories |-> {violation_category(vs[i].type) : i \in 1..Len(vs)},
          gdpr       |-> CountRegulation(issues, "GDPR"),
          wcag       |-> CountRegulation(issues, "WCAG"),
          ada        |-> CountRegulation(issues, "ADA"),
          estimated_total_time |-> remediation_plan.estimated_total_time ])

\* "ssl" in summary.lower() or "security" in summary.lower(): the summary names
\* security when a violation of that category or description is listed.
MentionsSecurity(technical_summary) == "security" \in technical_summary.categories

_create_agent_tasks(site, technical_summary) ==
    SelectSeq(AgentTasks,
              LAMBDA t : t # "security_task" \/ MentionsSecurity(technical_summary))

\* crew.kickoff() under Process.sequential: the tasks run one after another, in
\* list order, and the first call that raises ends kickoff with that exception.
\* The value lists the tasks whose agent was invoked.
RECURSIVE kickoff(_, _)
kickoff(tasks, nar) ==
    IF tasks = <<>> THEN Returned(<<>>)
    ELSE IF nar[Head(tasks)] = "fail"
         THEN Raised("Exception", Head(tasks) \o " failed", <<Head(tasks)>>)
         ELSE LET rest == kickoff(Tail(tasks), nar)
              IN  IF rest.raised
                  THEN Raised(rest.exc, rest.error, <<Head(tasks)>> \o rest.value)
                  ELSE Returned(<<Head(tasks)>> \o rest.value)

_mapped_issue_to_dict(issue) ==
    [ element_type |-> issue.element_type, issue_type |-> issue.issue_type,
      regulation_reference |-> issue.regulation_reference,
      severity_level |-> issue.severity_level, fix_priority |-> issue.fix_priority,
      estimated_fix_time |-> issue.estimated_fix_time,
      xpath |-> issue.element_xpath, css_selector |-> issue.element_selector ]

\* The report without analysis_timestamp (the wall clock).
_handle_crew_error(error, site) ==
    [ multi_agent_analysis |->
          [ execution_summary |-> "Multi-agent audit failed: " \o error,
            error_details |-> error,
            website_url |-> site.url,
            status |-> "failed" ],
      violation_report       |-> [error |-> "Violation scanning failed"],
      legal_context          |-> [error |-> "Legal update retrieval failed"],
      mapped_issues          |-> [error |-> "Issue mapping failed"],
      remediation_plan       |-> [error |-> "Remediation planning failed"],
      risk_assessment        |-> [error |-> "Risk assessment failed"],
      implementation_roadmap |-> [error |-> "Roadmap generation failed"] ]

-----------------------------------------------------------------------------
(* services/multi_agent_auditor.py: the narrative extractors *)

\* A text is a sequence of lines, joined by "\n".  A line is one of the
\* sentences below (none holds '.', '{', '}' or a line break) or, as the last
\* line of an answer of the language model, one block in braces.
Sentences == {"s_violation", "s_penalty", "s_short", "s_issue"}
BlockKinds == {"malformed", "empty", "partial", "full"}
BlockLine(kind) == "b_" \o kind

\* The characters of a line (a block's text depends on the role it answers;
\* only its length class and its keywords are read after it failed to decode
\* or to validate).
LineText(line) ==
    CASE line = "s_violation" -> "Critical violation: missing cookie consent banner"
      [] line = "s_penalty"   -> "- Action: a new GDPR fine is a minor risk"
      [] line = "s_short"     -> "Looks fine"
      [] line = "s_issue"     -> "Images have an invalid alt text here"
      [] line = "b_malformed" -> "{oops}"
      [] line = "b_empty"     -> "{}"
      [] OTHER                -> line

\* len(sentence.strip())
LineLength(line) ==
    CASE line = "s_violation" -> 49
      [] line = "s_penalty"   -> 41
      [] line = "s_short"     -> 10
      [] line = "s_issue"     -> 36
      [] line = "b_malformed" -> 6
      [] line = "b_empty"     -> 2
      [] line = "b_partial"   -> 17
      [] OTHER                -> 0

\* The keyword lists of the heuristic parsers of which some keyword is a
\* substring of the lowered line: any(keyword in sentence_lower for ...).
\* "section_marker": the line holds ':', 'action' or 'phase'; "action_item":
\* it starts with a bullet or a digit, or holds 'action'.
LineKeywords(line) ==
    CASE line = "s_violation" ->
             {"violation_words", "category_gdpr", "severity_critical", "enforcement_keywords",
              "risk_factor_keywords", "high_risk_keywords", "section_immediate",
              "section_marker"}
      [] line = "s_penalty" ->
             {"category_gdpr", "severity_low", "update_keywords", "regulation_keywords",
              "enforcement_keywords", "risk_factor_keywords", "penalty_keywords",
              "low_risk_keywords", "section_short_term", "section_marker", "action_item"}
      [] line = "s_short" -> {"enforcement_keywords", "penalty_keywords"}
      [] line = "s_issue" -> {"violation_words", "category_wcag"}
      [] line = "b_partial" -> {"section_immediate", "section_marker"}
      [] OTHER -> {}

ExtractorRoles == {"violations", "legal_updates", "risk_assessment", "implementation_roadmap"}

\* An answer of self.llm.invoke(prompt): it raises, or it returns the text
\* made of the prose lines followed by the block line, if any.
AnswerLines(answer) ==
    answer.prose \o (IF answer.block = "none" THEN <<>> ELSE <<BlockLine(answer.block)>>)

\* Python's dict.get(key, default)
Get(dict, key, default) == IF key \in DOMAIN dict THEN dict[key] ELSE default

EmptyDict == [k \in {} |-> ""]

\* json.loads of the block an answer to the role's prompt ends with.
DecodedBlock(role, kind) ==
    CASE kind = "empty" -> EmptyDict
      [] kind = "partial" /\ role = "violations" -> [total_violations |-> 1]
      [] kind = "partial" /\ role = "legal_updates" ->
             [recent_updates |-> <<"WCAG 2.2 was published">>]
      [] kind = "partial" /\ role = "risk_assessment" -> [overall_risk_level |-> "high"]
      [] kind = "partial" /\ role = "implementation_roadmap" -> [immediate |-> <<>>]
      [] kind = "full" /\ role = "violations" ->
             [ total_violations |-> 1,
               by_category |-> [gdpr |-> <<"Missing cookie consent banner required by GDPR Article 7">>],
               severity_breakdown |-> [critical |-> 1],
               raw_findings |-> "One consent finding" ]
      [] kind = "full" /\ role = "legal_updates" ->
             [ recent_updates |-> <<"WCAG 2.2 was published">>,
               relevant_regulations |-> <<"GDPR Article 7">>,
               enforcement_trends |-> <<>>, compliance_deadlines |-> <<>>,
               regional_variations |-> <<>>,
               update_summary |-> "One recent update" ]
      [] kind = "full" /\ role = "risk_assessment" ->
             [ overall_risk_level |-> "high",
               risk_factors |-> <<"No consent banner">>,
               potential_penalties |-> <<"GDPR fine">>,
               business_impact |-> "Legal exposure",
               risk_summary |-> "High risk" ]
      [] kind = "full" /\ role = "implementation_roadmap" ->
             [ immediate |-> <<>>, short_term |-> <<>>, long_term |-> <<>>,
               ongoing_maintenance |-> <<>>,
               roadmap_summary |-> "Nothing to do" ]

\* re.search(r'\{.*\}', response_text, re.DOTALL)
json_match(answer) == answer.block # "none"

\* json.loads(json_match.group())
json_loads(role, answer) ==
    IF answer.block = "malformed"
    THEN Raised("JSONDecodeError", "Expecting property name enclosed in double quotes", EmptyDict)
    ELSE Returned(DecodedBlock(role, answer.block))

\* What an extractor returns, with the return statement that produced it:
\* "strict" (the decoded block), "heuristic" (the text parser) or "default"
\* (the except branch).
Extracted(tier, value) == [tier |-> tier, value |-> value]

\* text_to_analyze.replace('\n', '. ').split('.') on llm_response + "\n" +
\* original_text: the lines of both texts, an empty text giving one empty piece.
SentencesOf(llm_response, original_text) ==
    (IF llm_response = <<>> THEN <<"">> ELSE llm_response)
    \o (IF original_text = <<>> THEN <<"">> ELSE original_text)

\* str(crew_result) if crew_result else fallback
TextOr(crew_result, fallback) ==
    IF crew_result = <<>> THEN fallback ELSE LineText(crew_result[1])

\* category_keywords and severity_keywords, in dict order.
category_keywords == <<"gdpr", "accessibility", "wcag", "seo", "security">>
severity_keywords == <<"critical", "high", "medium", "low">>

\* The first name of names whose keyword list matches the line, "" when none.
RECURSIVE FirstMatch(_, _, _)
FirstMatch(names, group, line) ==
    IF names = <<>> THEN ""
    ELSE IF (group \o Head(names)) \in LineKeywords(line) THEN Head(names)
         ELSE FirstMatch(Tail(names), group, line)

NoViolations ==
    [ total_violations |-> 0,
      by_category |-> [c \in {"gdpr", "accessibility", "wcag", "seo", "security"} |-> <<>>],
      severity_breakdown |-> [v \in Severities |-> 0] ]

\* The loop body without the else branch of the severity loop: a sentence
\* that names no severity is counted in no severity (the mutation).
CountViolation_named_severity(found, sentence) ==
    LET category == FirstMatch(category_keywords, "category_", sentence)
        matched  == FirstMatch(severity_keywords, "severity_", sentence)
    IN  IF LineLength(sentence) < MinViolationSentence THEN found
        ELSE IF "violation_words" \notin LineKeywords(sentence) THEN found
        ELSE IF category = "" THEN found
        ELSE [ total_violations |-> found.total_violations + 1,
               by_category |-> [found.by_category EXCEPT
                                   ![category] = Append(@, LineText(sentence))],
               severity_breakdown |->
                   IF matched = "" THEN found.severity_breakdown
                   ELSE [found.severity_breakdown EXCEPT ![matched] = @ + 1] ]

\* The body of the loop of _parse_violations_from_text for one sentence.
CountViolation(found, sentence) ==
    LET category == FirstMatch(category_keywords, "category_", sentence)
        matched  == FirstMatch(severity_keywords, "severity_", sentence)
        severity == IF matched = "" THEN "medium" ELSE matched
    IN  IF LineLength(sentence) < MinViolationSentence THEN found
        ELSE IF "violation_words" \notin LineKeywords(sentence) THEN found
        ELSE IF category = "" THEN found
        ELSE [ total_violations |-> found.total_violations + 1,
               by_category |-> [found.by_category EXCEPT
                                   ![category] = Append(@, LineText(sentence))],
               severity_breakdown |-> [found.severity_breakdown EXCEPT ![severity] = @ + 1] ]

RECURSIVE CountViolations(_, _)
CountViolations(found, sentences) ==
    IF sentences = <<>> THEN found
    ELSE CountViolations(CountViolation(found, Head(sentences)), Tail(sentences))

_parse_violations_from_text(llm_response, original_text) ==
    LET sentences == SentencesOf(llm_response, original_text)
        found     == CountViolations(NoViolations, sentences)
    IN  [ total_violations |-> found.total_violations,
          by_category |-> found.by_category,
          severity_breakdown |-> found.severity_breakdown,
          raw_findings |-> "Analyzed " \o ToString(Len(sentences))
                           \o " statements from compliance scan" ]

\* _extract_violations(crew_result) when self.llm.invoke answers with answer.
_extract_violations(crew_result, answer) ==
    IF answer.raises
    THEN Extracted("default",
             [ total_violations |-> 0,
               by_category |-> NoViolations.by_category,
               severity_breakdown |-> NoViolations.severity_breakdown,
               raw_findings |-> TextOr(crew_result, "No violations detected") ])
    ELSE IF json_match(answer) /\ ~json_loads("violations", answer).raised
    THEN Extracted("strict", json_loads("violations", answer).value)
    ELSE Extracted("heuristic", _parse_violations_from_text(AnswerLines(answer), crew_result))

\* seq[:n]
Take(seq, n) == SubSeq(seq, 1, IF Len(seq) < n THEN Len(seq) ELSE n)

\* self.chroma_client is None (the only value __init__ assigns), so the method
\* returns the decoded block as it is.
_enhance_legal_data_with_rag(legal_data, context) == legal_data

NoLegalUpdates ==
    [ recent_updates |-> <<>>, relevant_regulations |-> <<>>, enforcement_trends |-> <<>>,
      compliance_deadlines |-> <<>>, regional_variations |-> <<>> ]

\* The section a sentence is appended to, "" when it is skipped.
LegalSection(sentence) ==
    IF LineLength(sentence) < MinLegalSentence THEN ""
    ELSE IF "update_keywords" \in LineKeywords(sentence) THEN "recent_updates"
    ELSE IF "regulation_keywords" \in LineKeywords(sentence) THEN "relevant_regulations"
    ELSE IF "enforcement_keywords" \in LineKeywords(sentence) THEN "enforcement_trends"
    ELSE IF "deadline_keywords" \in LineKeywords(sentence) THEN "compliance_deadlines"
    ELSE ""

RECURSIVE SortLegal(_, _)
SortLegal(legal_data, sentences) ==
    IF sentences = <<>> THEN legal_data
    ELSE LET section == LegalSection(Head(sentences))
         IN  SortLegal(IF section = "" THEN legal_data
                       ELSE [legal_data EXCEPT ![section] = Append(@, LineText(Head(sentences)))],
                       Tail(sentences))

_parse_legal_updates_from_text(llm_response, original_text) ==
    LET sentences  == SentencesOf(llm_response, original_text)
        legal_data == SortLegal(NoLegalUpdates, sentences)
    IN  [ recent_updates       |-> Take(legal_data.recent_updates, LegalSectionCap),
          relevant_regulations |-> Take(legal_data.relevant_regulations, LegalSectionCap),
          enforcement_trends   |-> Take(legal_data.enforcement_trends, LegalSectionCap),
          compliance_deadlines |-> Take(legal_data.compliance_deadlines, LegalSectionCap),
          regional_variations  |-> legal_data.regional_variations,
          update_summary |-> "Extracted legal context from " \o ToString(Len(sentences))
                             \o " legal statements" ]

\* _extract_legal_updates(crew_result) when self.llm.invoke answers with answer.
_extract_legal_updates(crew_result, answer) ==
    IF answer.raises
    THEN Extracted("default",
             [ recent_updates |-> <<>>, relevant_regulations |-> <<>>,
               enforcement_trends |-> <<>>, compliance_deadlines |-> <<>>,
               regional_variations |-> <<>>,
               update_summary |-> TextOr(crew_result, "No legal updates retrieved") ])
    ELSE IF json_match(answer) /\ ~json_loads("legal_updates", answer).raised
    THEN Extracted("strict",
             _enhance_legal_data_with_rag(json_loads("legal_updates", answer).value, crew_result))
    ELSE Extracted("heuristic", _parse_legal_updates_from_text(AnswerLines(answer), crew_result))

\* The sentences of the list that hold a keyword of the group, long enough
\* to be read.
RECURSIVE RiskSentences(_, _)
RiskSentences(sentences, group) ==
    IF sentences = <<>> THEN <<>>
    ELSE (IF LineLength(Head(sentences)) >= MinRiskSentence
             /\ group \in LineKeywords(Head(sentences))
          THEN <<Head(sentences)>> ELSE <<>>)
         \o RiskSentences(Tail(sentences), group)

\* high_risk_count, medium_risk_count or low_risk_count after the loop.
RiskCount(factors, level) ==
    LET LevelOf(sentence) ==
            IF "high_risk_keywords" \in LineKeywords(sentence) THEN "high"
            ELSE IF "low_risk_keywords" \in LineKeywords(sentence) THEN "low"
            ELSE "medium"
    IN  Cardinality({i \in 1..Len(factors) : LevelOf(factors[i]) = level})

\* No penalty is added when the text names none (the mutation).
standard_penalties_none == <<>>

standard_penalties ==
    \* The first string holds the three characters U+00E2 U+201A U+00AC that the
    \* source file has before "20"; a character outside ASCII is written here
    \* as its \uXXXX escape, one escape per character, as json.dumps writes it.
    << "GDPR fines up to \\u00e2\\u201a\\u00ac20 million or 4% of annual turnover",
       "ADA litigation and accessibility lawsuit costs",
       "Regulatory enforcement actions and compliance orders",
       "Reputation damage and loss of user trust" >>

\* str.upper() of a risk level
Upper(level) ==
    CASE level = "high" -> "HIGH" [] level = "medium" -> "MEDIUM" [] level = "low" -> "LOW"

_parse_risk_assessment_from_text(llm_response, original_text) ==
    LET sentences == SentencesOf(llm_response, original_text)
        factors   == RiskSentences(sentences, "risk_factor_keywords")
        penalties == RiskSentences(sentences, "penalty_keywords")
        level     == IF RiskCount(factors, "high") > HighRiskMany THEN "high"
                     ELSE IF RiskCount(factors, "high") > 0
                             \/ RiskCount(factors, "medium") > MediumRiskMany THEN "medium"
                     ELSE IF RiskCount(factors, "low") > 0 THEN "low"
                     ELSE "medium"
    IN  [ overall_risk_level |-> level,
          risk_factors |-> Take([i \in 1..Len(factors) |-> LineText(factors[i])], RiskFactorCap),
          potential_penalties |->
              Take(IF penalties = <<>> THEN standard_penalties
                   ELSE [i \in 1..Len(penalties) |-> LineText(penalties[i])], PenaltyCap),
          business_impact |-> "Compliance violations may impact business operations and user trust",
          risk_summary |-> "Risk level: " \o Upper(level) \o " - Based on analysis of "
                           \o ToString(Len(sentences)) \o " compliance statements" ]

\* _extract_risk_assessment(crew_result) when self.llm.invoke answers with answer.
_extract_risk_assessment(crew_result, answer) ==
    IF answer.raises
    THEN Extracted("default",
             [ overall_risk_level |-> "medium", risk_factors |-> <<>>,
               potential_penalties |-> <<>>, business_impact |-> "",
               risk_summary |-> TextOr(crew_result, "No risk assessment completed") ])
    ELSE IF json_match(answer) /\ ~json_loads("risk_assessment", answer).raised
    THEN Extracted("strict", json_loads("risk_assessment", answer).value)
    ELSE Extracted("heuristic", _parse_risk_assessment_from_text(AnswerLines(answer), crew_result))

required_sections == <<"immediate", "short_term", "long_term", "ongoing_maintenance">>

_validate_roadmap_structure(roadmap_data) ==
    \A i \in 1..Len(required_sections) : required_sections[i] \in DOMAIN roadmap_data

\* line.lstrip('-*' + bullet + '0123456789. ').strip()
CleanedLine(line) ==
    IF line = "s_penalty" THEN "Action: a new GDPR fine is a minor risk" ELSE LineText(line)

CleanedLength(line) == IF line = "s_penalty" THEN 39 ELSE LineLength(line)

\* The terms tested by _extract_reason_from_context, _estimate_effort and
\* _suggest_validation that are substrings of the lowered cleaned line.
ActionTerms(line) ==
    CASE line = "s_violation" -> {"cookie", "consent"}
      [] line = "s_issue"     -> {"alt", "image"}
      [] OTHER                -> {}

_extract_reason_from_context(action, context) ==
    IF ActionTerms(action) \cap {"cookie", "consent"} # {}
    THEN "Required by GDPR Article 7 for lawful consent mechanisms"
    ELSE IF ActionTerms(action) \cap {"alt", "image"} # {}
    THEN "WCAG 2.1 Success Criterion 1.1.1 requires alternative text for images"
    ELSE IF ActionTerms(action) \cap {"ssl", "https"} # {}
    THEN "Security compliance and data protection requirement"
    ELSE IF ActionTerms(action) \cap {"label", "form"} # {}
    THEN "WCAG 2.1 Success Criterion 1.3.1 requires proper form labeling"
    ELSE "Improves overall compliance and user experience"

_estimate_effort(action) ==
    IF ActionTerms(action) \cap {"implement", "framework", "system"} # {} THEN "3-5 days"
    ELSE IF ActionTerms(action) \cap {"add", "fix", "update"} # {} THEN "4-8 hours"
    ELSE IF ActionTerms(action) \cap {"review", "audit", "test"} # {} THEN "1-2 days"
    ELSE "2-4 hours"

_suggest_validation(action) ==
    IF "cookie" \in ActionTerms(action)
    THEN "Test consent banner functionality and verify cookie compliance"
    ELSE IF "alt" \in ActionTerms(action)
    THEN "Use screen reader to verify all images have proper descriptions"
    ELSE IF "ssl" \in ActionTerms(action)
    THEN "Verify SSL certificate validity and HTTPS redirect functionality"
    ELSE IF "label" \in ActionTerms(action)
    THEN "Test form navigation with keyboard and screen reader"
    ELSE "Perform compliance testing and user acceptance testing"

\* The action_item built for a line, with the fields of its section.
ActionItem(line, section, original_text) ==
    LET action     == CleanedLine(line)
        reason     == _extract_reason_from_context(line, original_text)
        effort     == _estimate_effort(line)
        validation == _suggest_validation(line)
    IN  CASE section = "immediate" ->
                 [ action |-> action, reason |-> reason, effort |-> effort,
                   validation |-> validation,
                   skills |-> "Frontend development, security configuration",
                   priority |-> "Critical" ]
          [] section = "short_term" ->
                 [ action |-> action, reason |-> reason, effort |-> effort,
                   validation |-> validation,
                   dependencies |-> "Immediate actions completed",
                   outcomes |-> "Improved compliance score" ]
          [] section = "long_term" ->
                 [ action |-> action, reason |-> reason, effort |-> effort,
                   validation |-> validation,
                   success_metrics |-> "Full regulatory compliance",
                   timeline |-> "3-6 months" ]
          [] section = "ongoing_maintenance" ->
                 [ action |-> action, reason |-> reason, effort |-> effort,
                   validation |-> validation,
                   frequency |-> "Monthly or quarterly",
                   responsibility |-> "Compliance team" ]

\* The section a line is a header of, or the current one.
SectionAfter(line, current_section) ==
    LET header == FirstMatch(required_sections, "section_", line)
    IN  IF header # "" /\ "section_marker" \in LineKeywords(line) THEN header
        ELSE current_section

\* The loop over the lines of the answer.
RECURSIVE CollectActions(_, _, _, _)
CollectActions(roadmap, lines, current_section, original_text) ==
    IF lines = <<>> THEN roadmap
    ELSE LET line    == Head(lines)
             section == SectionAfter(line, current_section)
             item    == section # "" /\ "action_item" \in LineKeywords(line)
                        /\ CleanedLength(line) > MinActionLength
         IN  CollectActions(
                 IF item THEN [roadmap EXCEPT
                                  ![section] = Append(@, ActionItem(line, section, original_text))]
                 ELSE roadmap,
                 Tail(lines), section, original_text)

_generate_default_actions(section, context) ==
    CASE section = "immediate" ->
             << [ action |-> "Implement SSL certificate and force HTTPS redirect",
                  reason |-> "Essential for data security and regulatory compliance",
                  effort |-> "4-8 hours", skills |-> "DevOps, server configuration",
                  validation |-> "Verify SSL rating and certificate validity" ],
                [ action |-> "Add GDPR-compliant cookie consent banner",
                  reason |-> "Required by GDPR Article 7 for EU visitors",
                  effort |-> "1-2 days", skills |-> "Frontend development, legal knowledge",
                  validation |-> "Test consent mechanisms and cookie management" ] >>
      [] section = "short_term" ->
             << [ action |-> "Conduct comprehensive accessibility audit and remediation",
                  reason |-> "Ensure WCAG 2.1 AA compliance and ADA requirements",
                  effort |-> "2-4 weeks",
                  dependencies |-> "Immediate security fixes completed",
                  outcomes |-> "Improved accessibility score and reduced legal risk" ] >>
      [] section = "long_term" ->
             << [ action |-> "Establish compliance monitoring and reporting framework",
                  reason |-> "Proactive compliance management and continuous improvement",
                  effort |-> "1-3 months",
                  success_metrics |-> "Automated compliance monitoring with >95% uptime",
                  timeline |-> "6-12 months for full implementation" ] >>
      [] section = "ongoing_maintenance" ->
             << [ action |-> "Monthly compliance audits and regulatory update reviews",
                  frequency |-> "Monthly",
                  responsibility |-> "Compliance team or designated developer",
                  tools |-> "Automated scanning tools and manual reviews",
                  alerts |-> "New accessibility violations or security issues" ] >>
      [] OTHER -> <<>>

\* roadmap[section], or the default actions when the loop left it empty.
OrDefaults(roadmap, section, original_text) ==
    IF roadmap[section] = <<>> THEN _generate_default_actions(section, original_text)
    ELSE roadmap[section]

\* phase_details is kept as the timeline of each phase; its other literals
\* (priority, budget_estimate, team_size, risk_if_delayed) are left out.
phase_timelines ==
    [ immediate |-> "0-2 weeks", short_term |-> "1-3 months", long_term |-> "3-12 months",
      ongoing_maintenance |-> "Continuous" ]

_parse_enhanced_roadmap_from_text(llm_response, original_text) ==
    LET roadmap == CollectActions([x \in {"immediate", "short_term", "long_term",
                                           "ongoing_maintenance"} |-> <<>>],
                                  llm_response, "", original_text)
    IN  [ immediate           |-> OrDefaults(roadmap, "immediate", original_text),
          short_term          |-> OrDefaults(roadmap, "short_term", original_text),
          long_term           |-> OrDefaults(roadmap, "long_term", original_text),
          ongoing_maintenance |-> OrDefaults(roadmap, "ongoing_maintenance", original_text),
          phase_details       |-> phase_timelines,
          roadmap_summary |-> "AI-generated implementation roadmap based on specific compliance violations found",
          total_implementation_time |-> "3-6 months for full compliance",
          compliance_score_projection |-> "Expected 60-90% improvement" ]

\* _create_enhanced_fallback_roadmap: the fixed roadmap returned when the
\* model call raises; its phase timelines are kept as phase_timelines.
_create_enhanced_fallback_roadmap(analysis_context) ==
    [ immediate |->
          << [ action |-> "Review and address critical compliance violations identified in analysis",
               reason |-> "Immediate legal and security risk mitigation",
               effort |-> "1-2 days",
               skills |-> "Web development, security basics",
               validation |-> "Re-run compliance scan to verify fixes" ],
             [ action |-> "Implement basic security measures and SSL certificates",
               reason |-> "Foundation for data protection compliance",
               effort |-> "4-8 hours",
               skills |-> "Server administration, SSL configuration",
               validation |-> "SSL Labs test showing A+ rating" ] >>,
      short_term |->
          << [ action |-> "Conduct comprehensive accessibility audit and remediation",
               reason |-> "Ensure WCAG 2.1 AA compliance and ADA requirements",
               effort |-> "2-4 weeks",
               dependencies |-> "Immediate security fixes completed",
               outcomes |-> "Improved accessibility score and reduced legal risk" ],
             [ action |-> "Develop privacy policy and cookie management system",
               reason |-> "GDPR compliance for EU visitors and data protection",
               effort |-> "1-2 weeks",
               dependencies |-> "Legal review of data practices",
               outcomes |-> "Full GDPR compliance for data collection" ] >>,
      long_term |->
          << [ action |-> "Establish compliance monitoring and reporting framework",
               reason |-> "Proactive compliance management and continuous improvement",
               effort |-> "1-3 months",
               success_metrics |-> "Automated compliance monitoring with >95% uptime",
               timeline |-> "6-12 months for full implementation" ],
             [ action |-> "Build organization-wide compliance governance framework",
               reason |-> "Systematic approach to regulatory compliance",
               effort |-> "3-6 months",
               success_metrics |-> "Company-wide compliance policies and procedures",
               timeline |-> "6-12 months for full organizational adoption" ] >>,
      ongoing_maintenance |->
          << [ action |-> "Monthly compliance audits and regulatory update reviews",
               frequency |-> "Monthly",
               responsibility |-> "Compliance team or designated developer",
               tools |-> "Automated scanning tools and manual reviews",
               alerts |-> "New accessibility violations or security issues" ],
             [ action |-> "Monitor regulatory changes and update policies",
               frequency |-> "Quarterly",
               responsibility |-> "Legal and compliance team",
               tools |-> "Legal research databases and regulatory newsletters",
               alerts |-> "New regulations affecting website compliance" ] >>,
      phase_details |-> phase_timelines,
      roadmap_summary |-> "Comprehensive compliance implementation roadmap with immediate security fixes, accessibility improvements, and long-term governance framework",
      total_implementation_time |-> "3-6 months for full compliance",
      compliance_score_projection |-> "Expected 60-90% improvement in compliance score" ]

\* _extract_implementation_roadmap(crew_result) when self.llm.invoke answers
\* with answer.  A decoded block that fails the validation is not returned.
_extract_implementation_roadmap(crew_result, answer) ==
    IF answer.raises
    THEN Extracted("default", _create_enhanced_fallback_roadmap(crew_result))
    ELSE IF json_match(answer) /\ ~json_loads("implementation_roadmap", answer).raised
            /\ _validate_roadmap_structure(json_loads("implementation_roadmap", answer).value)
    THEN Extracted("strict", json_loads("implementation_roadmap", answer).value)
    ELSE Extracted("heuristic",
                   _parse_enhanced_roadmap_from_text(AnswerLines(answer), crew_result))

\* The top-level fields of the block the role's prompt asks for; for the
\* roadmap, the sections _validate_roadmap_structure requires.
prompt_fields(role) ==
    CASE role = "violations" ->
             {"total_violations", "by_category", "severity_breakdown", "raw_findings"}
      [] role = "legal_updates" ->
             {"recent_updates", "relevant_regulations", "enforcement_trends",
              "compliance_deadlines", "regional_variations", "update_summary"}
      [] role = "risk_assessment" ->
             {"overall_risk_level", "risk_factors", "potential_penalties", "business_impact",
              "risk_summary"}
      [] role = "implementation_roadmap" ->
             {required_sections[i] : i \in 1..Len(required_sections)}

\* The extractor of a role.
extract(role, crew_result, answer) ==
    CASE role = "violations"             -> _extract_violations(crew_result, answer)
      [] role = "legal_updates"          -> _extract_legal_updates(crew_result, answer)
      [] role = "risk_assessment"        -> _extract_risk_assessment(crew_result, answer)
      [] role = "implementation_roadmap" -> _extract_implementation_roadmap(crew_result, answer)

\* The descriptions of the technical violations whose type starts with the
\* category, in list order.
RECURSIVE DescriptionsOf(_, _)
DescriptionsOf(technical_violations, category) ==
    IF technical_violations = <<>> THEN <<>>
    ELSE (IF violation_category(Head(technical_violations).type) = category
          THEN <<Head(technical_violations).description>> ELSE <<>>)
         \o DescriptionsOf(Tail(technical_violations), category)

SeverityCount(technical_violations, severity) ==
    Cardinality({i \in 1..Len(technical_violations) :
                     technical_violations[i].severity = severity})

_combine_violation_reports(technical_violations, ai_violations) ==
    [ total_violations |-> Len(technical_violations) + Get(ai_violations, "total_violations", 0),
      by_category |->
          [ category \in {"gdpr", "wcag", "ada", "security", "seo"} |->
                DescriptionsOf(technical_violations, category)
                \o Get(Get(ai_violations, "by_category", EmptyDict), category, <<>>) ],
      severity_breakdown |->
          [ severity \in Severities |->
                SeverityCount(technical_violations, severity)
                + Get(Get(ai_violations, "severity_breakdown", EmptyDict), severity, 0) ],
      technical_findings |-> "Found " \o ToString(Len(technical_violations))
                              \o " technical violations",
      ai_enhanced_findings |-> Get(ai_violations, "raw_findings", "") ]

\* The merged risk assessment with the severity counts of the narrative (the
\* mutation).
_enhance_risk_assessment_narrative_counts(compliance_report, ai_risk) ==
    [ overall_risk_level |-> Get(ai_risk, "overall_risk_level", "medium"),
      risk_factors |-> Get(ai_risk, "risk_factors", <<>>),
      potential_penalties |-> Get(ai_risk, "potential_penalties", <<>>),
      business_impact |-> Get(ai_risk, "business_impact", ""),
      compliance_score |-> Get(compliance_report, "compliance_score", 0),
      technical_risk_breakdown |-> Get(ai_risk, "severity_breakdown", EmptyDict),
      risk_summary |-> Get(ai_risk, "risk_summary", "Combined technical and AI risk assessment") ]

_enhance_risk_assessment(compliance_report, ai_risk) ==
    [ overall_risk_level |-> Get(ai_risk, "overall_risk_level", "medium"),
      risk_factors |-> Get(ai_risk, "risk_factors", <<>>),
      potential_penalties |-> Get(ai_risk, "potential_penalties", <<>>),
      business_impact |-> Get(ai_risk, "business_impact", ""),
      compliance_score |-> Get(compliance_report, "compliance_score", 0),
      technical_risk_breakdown |-> Get(compliance_report, "severity_breakdown", EmptyDict),
      risk_summary |-> Get(ai_risk, "risk_summary", "Combined technical and AI risk assessment") ]

\* _extract_remediation_advice(crew_result): no call of the language model.
_extract_remediation_advice(crew_result) ==
    [ immediate_actions |-> <<>>, technical_fixes |-> <<>>, code_examples |-> <<>>,
      policy_updates |-> <<>>, testing_procedures |-> <<>>,
      remediation_summary |-> TextOr(crew_result, "No remediation advice generated") ]

\* The four extractors in the order of the dict literal, each with its own
\* call of self.llm.invoke: llm[role] is the answer to the role's prompt.
_extract_ai_insights_from_crew(crew_result, llm) ==
    [ violations             |-> _extract_violations(crew_result, llm["violations"]).value,
      legal_updates          |-> _extract_legal_updates(crew_result, llm["legal_updates"]).value,
      risk_assessment        |-> _extract_risk_assessment(crew_result, llm["risk_assessment"]).value,
      implementation_roadmap |->
          _extract_implementation_roadmap(crew_result, llm["implementation_roadmap"]).value,
      remediation_advice     |-> _extract_remediation_advice(crew_result) ]

_enhance_legal_context(ai_legal_updates) ==
    [ recent_updates |-> Get(ai_legal_updates, "recent_updates", <<>>),
      relevant_regulations |-> Get(ai_legal_updates, "relevant_regulations", <<>>),
      enforcement_trends |-> Get(ai_legal_updates, "enforcement_trends", <<>>),
      compliance_deadlines |-> Get(ai_legal_updates, "compliance_deadlines", <<>>),
      regional_variations |-> Get(ai_legal_updates, "regional_variations", <<>>),
      update_summary |-> Get(ai_legal_updates, "update_summary",
                             "AI-enhanced legal research completed") ]

_enhance_implementation_roadmap(technical_plan, ai_roadmap) ==
    [ immediate |-> Get(ai_roadmap, "immediate", <<>>),
      short_term |-> Get(ai_roadmap, "short_term", <<>>),
      long_term |-> Get(ai_roadmap, "long_term", <<>>),
      ongoing_maintenance |-> Get(ai_roadmap, "ongoing_maintenance", <<>>),
      timeline_overview |-> Get(ai_roadmap, "timeline_overview", EmptyDict),
      resource_requirements |-> Get(ai_roadmap, "resource_requirements", EmptyDict),
      success_metrics |-> Get(ai_roadmap, "success_metrics", EmptyDict),
      technical_solutions |-> Get(technical_plan, "solutions", <<>>),
      auto_implementable |-> Get(technical_plan, "auto_implementable", 0),
      manual_fixes |-> Get(technical_plan, "manual_fixes", 0),
      roadmap_summary |-> "Combined technical and AI-enhanced implementation roadmap with "
                          \o ToString(Get(technical_plan, "total_fixes", 0)) \o " solutions" ]

\* The sections merged from the technical results and the insights extracted
\* from the crew's narrative.
CombinedSections(ai_insights, vs, compliance_report, remediation_plan) ==
    [ violation_report |-> _combine_violation_reports(vs, Get(ai_insights, "violations", EmptyDict)),
      legal_context |-> _enhance_legal_context(Get(ai_insights, "legal_updates", EmptyDict)),
      risk_assessment |->
          _enhance_risk_assessment(compliance_report,
                                   Get(ai_insights, "risk_assessment", EmptyDict)),
      implementation_roadmap |->
          _enhance_implementation_roadmap(remediation_plan,
                                          Get(ai_insights, "implementation_roadmap", EmptyDict)),
      ai_enhanced_recommendations |-> Get(ai_insights, "remediation_advice", EmptyDict) ]

\* The dict returned, without analysis_timestamp (the wall clock).
\* regulatory_citations is list(set(...)): the distinct references, in no
\* order the code fixes, kept as the set.
CombinedReport(sections, vs, issues, compliance_report, remediation_plan, technical_summary) ==
    [ multi_agent_analysis |->
          [ status |-> "completed",
            agents_involved |-> <<"Compliance Scanner", "Legal Update Retriever",
                                  "Issue Mapping Agent", "Remediation Advisor">>,
            execution_summary |-> "Technical analysis found " \o ToString(Len(vs))
                \o " violations, enhanced by AI agents with external research",
            technical_analysis_summary |-> technical_summary ],
      violation_report |-> sections.violation_report,
      legal_context |-> sections.legal_context,
      mapped_issues |->
          [ mapped_violations |-> [i \in 1..Len(issues) |-> _mapped_issue_to_dict(issues[i])],
            regulatory_citations |-> {issues[i].regulation_reference : i \in 1..Len(issues)},
            prioritization |-> Get(compliance_report, "priority_matrix", EmptyDict),
            compliance_score |-> Get(compliance_report, "compliance_score", 0) ],
      remediation_plan |->
          [ technical_solutions |-> remediation_plan,
            ai_enhanced_recommendations |-> sections.ai_enhanced_recommendations,
            implementation_order |-> Get(remediation_plan, "implementation_order", <<>>),
            estimated_time |-> Get(remediation_plan, "estimated_total_time", "Unknown") ],
      risk_assessment |-> sections.risk_assessment,
      implementation_roadmap |-> sections.implementation_roadmap ]

\* _process_combined_results(...) with the language model answering the four
\* extraction prompts as llm.
_process_combined_results(crew_result, site, vs, issues, remediation_plan, technical_summary, llm) ==
    CombinedReport(
        CombinedSections(_extract_ai_insights_from_crew(crew_result, llm), vs,
                         generate_compliance_report(issues), remediation_plan),
        vs, issues, generate_compliance_report(issues), remediation_plan, technical_summary)

\* What the caller of audit_website_with_agents gets: .value is the dict
\* returned, .violations the scanner's self.violations afterwards.
\* invoked: the tasks whose agent the run invoked, in order.
AuditReturn(result, scan, invoked) ==
    [ raised |-> FALSE, exc |-> "", error |-> "", value |-> result, violations |-> scan.value,
      invoked |-> invoked ]

\* Step 6, or the handler when crew.kickoff() raised.  str(crew_result) is the
\* text the collaborator ended with.
audit_combine(scan, issues, plan, summary, crew, site, nar) ==
    IF crew.raised THEN AuditReturn(_handle_crew_error(crew.error, site), scan, crew.value)
    ELSE AuditReturn(_process_combined_results(nar.crew_result, site, scan.value, issues,
                                               plan, summary.value, nar.llm), scan, crew.value)

\* Step 5, or the handler when _create_technical_summary raised.
audit_crew(scan, issues, plan, summary, site, nar) ==
    IF summary.raised THEN AuditReturn(_handle_crew_error(summary.error, site), scan, <<>>)
    ELSE audit_combine(scan, issues, plan, summary,
                       kickoff(_create_agent_tasks(site, summary.value), nar.tasks), site, nar)

\* Steps 3 and 4.
audit_plan(scan, issues, site, nar) ==
    audit_crew(scan, issues, generate_remediation_plan(issues),
               _create_technical_summary(scan.value, issues, generate_remediation_plan(issues)),
               site, nar)

\* Steps 1 and 2.
audit_map(scan, site, nar) ==
    audit_plan(scan, map_violations_to_elements(site.doc, scan.value), site, nar)

\* audit_website_with_agents(website_data) on an auditor whose scanner holds
\* self_violations, with the collaborator behaving as nar.  The body has no
\* await: the call runs to its return without interleaving.  Every exception
\* of the body is caught by `except Exception` and handed to _handle_crew_error.
audit_website_with_agents(self_violations, site, nar) ==
    audit_map(scan_website(self_violations, site.url, site.doc), site, nar)

-----------------------------------------------------------------------------
(* The enumerated requests *)

\* Number of rule checks the document fails.
Defects(doc) ==
    (IF doc.cookie_banner THEN 0 ELSE 1) + (IF doc.privacy_link THEN 0 ELSE 1)
    + (IF doc.contact_text THEN 0 ELSE 1) + (IF doc.images_no_alt > 0 THEN 1 ELSE 0)
    + (IF doc.h1_count = SingleH1 THEN 0 ELSE 1) + doc.unlabeled_inputs + doc.generic_links
    + doc.no_keyboard + (IF doc.landmarks < LandmarkMinimum THEN 1 ELSE 0)
    + doc.external_scripts + (IF doc.meta_description THEN 0 ELSE 1)
    + (IF doc.title THEN 0 ELSE 1)

\* The requests of the runs that are repeated or combined with a narrator.
ProbeWebsites == {w \in Websites : Defects(w.doc) <= MaxDefects}

\* The requests one scanner instance is given over and over.
ScannedWebsites == {w \in Websites : Defects(w.doc) <= MaxScanDefects}

CompliantDocument ==
    [ cookie_banner |-> TRUE, privacy_link |-> TRUE, contact_text |-> TRUE,
      images_no_alt |-> 0, h1_count |-> SingleH1, unlabeled_inputs |-> 0, generic_links |-> 0,
      no_keyboard |-> 0, landmarks |-> LandmarkMinimum, external_scripts |-> 0,
      meta_description |-> TRUE, title |-> TRUE ]

NoWebsite == [url |-> UrlHttps, doc |-> CompliantDocument]
\* The answers of the language model to the extraction prompts of a run: it
\* raises, or it returns prose, or prose ending with a block.
LlmAnswers ==
    { [raises |-> TRUE, prose |-> <<>>, block |-> "none"],
      [raises |-> FALSE, prose |-> <<"s_short">>, block |-> "none"],
      [raises |-> FALSE, prose |-> <<"s_violation", "s_penalty">>, block |-> "none"],
      [raises |-> FALSE, prose |-> <<>>, block |-> "full"] }

\* The external collaborator of a run: the outcome of each task's call,
\* str(crew_result) when kickoff returns (empty, or one line), and the answer
\* of self.llm.invoke to each extraction prompt.
Narrators ==
    [ tasks : TaskOutcomes,
      crew_result : {<<>>, <<"s_violation">>},
      llm : {[role \in ExtractorRoles |-> answer] : answer \in LlmAnswers} ]

NoNarrator ==
    [ tasks |-> [t \in TaskNames |-> "ok"], crew_result |-> <<>>,
      llm |-> [role \in ExtractorRoles |-> [raises |-> TRUE, prose |-> <<>>, block |-> "none"]] ]
NoPrevious == [repeated |-> FALSE, identical |-> FALSE, earlier |-> FALSE]
NoReport == [none |-> TRUE]
NoExtraction == [none |-> TRUE]
NoRuns == <<>>
NoPlan == [none |-> TRUE]
NoAudit ==
    [ raised |-> FALSE, exc |-> "", error |-> "", value |-> NoReport, violations |-> <<>>,
      invoked |-> <<>> ]

\* State after construction: ComplianceScanner.__init__ sets self.violations = [].
Constructed ==
    /\ violations = <<>>
    /\ returned = Returned(<<>>)
    /\ previous = NoPrevious
    /\ mapped_issues = <<>>
    /\ report = NoReport
    /\ audit = NoAudit
    /\ runs = NoRuns
    /\ fix_plan = NoPlan

-----------------------------------------------------------------------------
(* Spec: one audit run of a fresh auditor *)

Init ==
    /\ website \in ProbeWebsites
    /\ narrator \in Narrators
    /\ pc = "start"
    /\ Constructed
    /\ extraction = NoExtraction

AuditWebsite ==
    /\ pc = "start"
    /\ audit' = audit_website_with_agents(violations, website, narrator)
    /\ violations' = audit'.violations
    /\ pc' = "audited"
    /\ UNCHANGED <<website, narrator, returned, previous, mapped_issues, report, extraction, runs, fix_plan>>

Next == AuditWebsite

Spec == Init /\ [][Next]_vars

-----------------------------------------------------------------------------
(* SpecScanner: one ComplianceScanner instance, scan_website called repeatedly *)

InitScanner ==
    /\ website = NoWebsite
    /\ narrator = NoNarrator
    /\ pc = "idle"
    /\ Constructed
    /\ extraction = NoExtraction

ScanWebsite(site) ==
    /\ returned' = scan_website(violations, site.url, site.doc)
    /\ violations' = returned'.value
    /\ website' = site
    /\ previous' = [ repeated  |-> pc = "scanned" /\ site = website,
                     identical |-> returned' = returned,
                     earlier   |-> IF pc = "scanned" /\ site = website
                                   THEN previous.earlier ELSE pc = "scanned" ]
    /\ pc' = "scanned"
    /\ UNCHANGED <<narrator, mapped_issues, report, audit, extraction, runs, fix_plan>>

NextScanner == \E site \in ScannedWebsites : ScanWebsite(site)

SpecScanner == InitScanner /\ [][NextScanner]_vars

-----------------------------------------------------------------------------
(* SpecPipeline: a client of the three implementation objects calls their  *)
(* methods in turn on one request: scan_website, map_violations_to_elements, *)
(* generate_remediation_plan, generate_compliance_report                     *)

InitPipeline ==
    /\ website \in Websites
    /\ narrator = NoNarrator
    /\ pc = "start"
    /\ Constructed
    /\ extraction = NoExtraction

ScanStep ==
    /\ pc = "start"
    /\ returned' = scan_website(violations, website.url, website.doc)
    /\ violations' = returned'.value
    /\ pc' = "scanned"
    /\ UNCHANGED <<website, narrator, previous, mapped_issues, report, audit, extraction, runs, fix_plan>>

MapStep ==
    /\ pc = "scanned"
    /\ mapped_issues' = map_violations_to_elements(website.doc, returned.value)
    /\ pc' = "mapped"
    /\ UNCHANGED <<website, narrator, violations, returned, previous, report, audit, extraction, runs, fix_plan>>

PlanStep ==
    /\ pc = "mapped"
    /\ fix_plan' = generate_remediation_plan(mapped_issues)
    /\ pc' = "remediated"
    /\ UNCHANGED <<website, narrator, violations, returned, previous, mapped_issues, report,
                   audit, extraction, runs>>

ReportStep ==
    /\ pc = "remediated"
    /\ report' = generate_compliance_report(mapped_issues)
    /\ pc' = "reported"
    /\ UNCHANGED <<website, narrator, violations, returned, previous, mapped_issues, audit, extraction, runs, fix_plan>>

NextPipeline == ScanStep \/ MapStep \/ PlanStep \/ ReportStep

SpecPipeline == InitPipeline /\ [][NextPipeline]_vars

-----------------------------------------------------------------------------
(* SpecExtractor: one auditor extracts one role's section of one narrative, *)
(* again and again, the language model answering as it likes                *)

\* The sentences that short texts mix: those more than one parser reads.
MixedSentences == {"s_violation", "s_penalty", "s_short"}

\* The texts of at most MaxLines lines.
RECURSIVE TextsOf(_)
TextsOf(n) ==
    IF n = 0 THEN {<<>>}
    ELSE TextsOf(n - 1) \cup {Append(t, s) : t \in {u \in TextsOf(n - 1) : Len(u) = n - 1},
                                               s \in MixedSentences}

\* The texts that say one sentence again and again, up to MaxRepeats times.
RepeatedTexts == {[i \in 1..n |-> s] : n \in (MaxLines + 1)..MaxRepeats, s \in Sentences}

Answers ==
    {[raises |-> TRUE, prose |-> <<>>, block |-> "none"]}
    \cup [raises : {FALSE}, prose : TextsOf(MaxLines), block : BlockKinds \cup {"none"}]
    \cup [raises : {FALSE}, prose : RepeatedTexts, block : {"none"}]

\* str(crew_result): empty (falsy) or one line.
CrewResults == {<<>>, <<"s_violation">>}

InitExtractor ==
    /\ website = NoWebsite
    /\ narrator = NoNarrator
    /\ pc = "idle"
    /\ Constructed
    /\ \E role \in ExtractorRoles, crew_result \in CrewResults :
           extraction = [ role |-> role, crew_result |-> crew_result,
                          answer |-> [raises |-> TRUE, prose |-> <<>>, block |-> "none"],
                          result |-> Extracted("none", EmptyDict),
                          repeated |-> FALSE, identical |-> FALSE ]

Extract(answer) ==
    /\ pc \in {"idle", "extracted"}
    /\ extraction' = [extraction EXCEPT
           !.answer    = answer,
           !.result    = extract(extraction.role, extraction.crew_result, answer),
           !.repeated  = pc = "extracted",
           !.identical = pc = "extracted"
                         /\ extract(extraction.role, extraction.crew_result, answer)
                            = extraction.result]
    /\ pc' = "extracted"
    /\ UNCHANGED <<website, narrator, violations, returned, previous, mapped_issues, report,
                   audit, runs, fix_plan>>

\* _combine_violation_reports applied to the violations the scanner lists for
\* a website and to the section of one extraction.
Combine(site) ==
    /\ pc = "extracted"
    /\ ~extraction.repeated
    /\ extraction.role = "violations"
    /\ website' = site
    /\ returned' = scan_website(violations, site.url, site.doc)
    /\ violations' = returned'.value
    /\ report' = _combine_violation_reports(returned'.value, extraction.result.value)
    /\ pc' = "combined"
    /\ UNCHANGED <<narrator, previous, mapped_issues, audit, extraction, runs, fix_plan>>

\* _enhance_risk_assessment applied to the compliance report of the issues
\* mapped for a website and to the section of one extraction.
Enhance(site) ==
    /\ pc = "extracted"
    /\ ~extraction.repeated
    /\ extraction.role = "risk_assessment"
    /\ website' = site
    /\ returned' = scan_website(violations, site.url, site.doc)
    /\ violations' = returned'.value
    /\ mapped_issues' = map_violations_to_elements(site.doc, returned'.value)
    /\ report' = _enhance_risk_assessment(generate_compliance_report(mapped_issues'),
                                          extraction.result.value)
    /\ pc' = "enhanced"
    /\ UNCHANGED <<narrator, previous, audit, extraction, runs, fix_plan>>

NextExtractor ==
    \/ \E answer \in Answers : Extract(answer)
    \/ \E site \in ScannedWebsites : Combine(site)
    \/ \E site \in ScannedWebsites : Enhance(site)

SpecExtractor == InitExtractor /\ [][NextExtractor]_vars

-----------------------------------------------------------------------------
(* SpecAdvisor: generate_remediation_plan for a list of issues *)

\* issue_type attributes: one holding the key of each of the six templates
\* (two of them scanner types that hold more than the key) and two the mapper
\* writes that hold none.
AdvisorIssueTypes ==
    { "gdpr_cookie_banner", "wcag_missing_alt", "wcag_unlabeled_inputs", "ada_keyboard_access",
      "security_no_https", "seo_missing_meta_desc",
      "Website not served over HTTPS", "Missing meta description" }

RECURSIVE IssueLists(_)
IssueLists(n) ==
    IF n = 0 THEN {<<>>}
    ELSE IssueLists(n - 1)
         \cup {Append(l, [issue_type |-> t]) : l \in {u \in IssueLists(n - 1) : Len(u) = n - 1},
                                               t \in AdvisorIssueTypes}

InitAdvisor ==
    /\ website = NoWebsite
    /\ narrator = NoNarrator
    /\ pc = "idle"
    /\ violations = <<>>
    /\ returned = Returned(<<>>)
    /\ previous = NoPrevious
    /\ mapped_issues \in IssueLists(MaxIssues)
    /\ report = NoReport
    /\ audit = NoAudit
    /\ extraction = NoExtraction
    /\ runs = NoRuns
    /\ fix_plan = NoPlan

PlanRemediation ==
    /\ pc = "idle"
    /\ fix_plan' = generate_remediation_plan(mapped_issues)
    /\ pc' = "planned"
    /\ UNCHANGED <<website, narrator, violations, returned, previous, mapped_issues, report,
                   audit, extraction, runs>>

NextAdvisor == PlanRemediation

SpecAdvisor == InitAdvisor /\ [][NextAdvisor]_vars

-----------------------------------------------------------------------------
(* SpecConcurrent: the /audit route serving MaxRuns requests at once.  A     *)
(* request is suspended only at the awaits before line 109; lines 109-110    *)
(* (a new auditor, audit_website_with_agents, which awaits nothing) run      *)
(* without interruption.                                                     *)

RunIds == 1..MaxRuns

ConcurrentDocuments ==
    { CompliantDocument,
      [CompliantDocument EXCEPT !.cookie_banner = FALSE],
      [CompliantDocument EXCEPT !.title = FALSE] }

ConcurrentWebsites == [url : {UrlHttps, UrlHttp}, doc : ConcurrentDocuments]

\* The scanner instance of the auditor built for a run, as if one shared
\* module-level scanner served every auditor (the mutation).
ComplianceScanner_shared(run) == MaxRuns

\* self.compliance_scanner_impl = ComplianceScanner(): the instance of the
\* auditor built for a run, a new one for every auditor.
ComplianceScanner_new(run) == run

IdleRun == [pc |-> "idle", site |-> NoWebsite, scanner |-> 0, audit |-> NoAudit]

\* self.violations of a scanner instance: [] for one just constructed.
InstanceViolations(scanners, id) == IF id \in DOMAIN scanners THEN scanners[id] ELSE <<>>

InitConcurrent ==
    /\ website = NoWebsite
    /\ narrator = NoNarrator
    /\ pc = "serving"
    /\ violations = <<>>
    /\ returned = Returned(<<>>)
    /\ previous = NoPrevious
    /\ mapped_issues = <<>>
    /\ report = NoReport
    /\ audit = NoAudit
    /\ extraction = NoExtraction
    /\ fix_plan = NoPlan
    /\ runs = [request |-> [r \in RunIds |-> IdleRun], scanners |-> <<>>]

\* The request arrives and is suspended at an await before the audit.
Receive(r, site) ==
    /\ runs.request[r].pc = "idle"
    /\ runs' = [runs EXCEPT !.request[r].pc = "received", !.request[r].site = site]
    /\ UNCHANGED <<website, narrator, pc, violations, returned, previous, mapped_issues,
                   report, audit, extraction, fix_plan>>

\* Lines 109-110: the auditor and its scanner are built and the audit runs.
AuditRun(r) ==
    /\ runs.request[r].pc = "received"
    /\ LET id  == ComplianceScanner_new(r)
           out == audit_website_with_agents(InstanceViolations(runs.scanners, id),
                                            runs.request[r].site, narrator)
       IN  runs' = [ request  |-> [runs.request EXCEPT ![r].pc = "audited",
                                                       ![r].scanner = id,
                                                       ![r].audit = out],
                     scanners |-> [i \in DOMAIN runs.scanners \cup {id} |->
                                       IF i = id THEN out.violations ELSE runs.scanners[i]] ]
    /\ UNCHANGED <<website, narrator, pc, violations, returned, previous, mapped_issues,
                   report, audit, extraction, fix_plan>>

\* Lines 112-121: the response is built from the run's own output.
Respond(r) ==
    /\ runs.request[r].pc = "audited"
    /\ runs' = [runs EXCEPT !.request[r].pc = "responded"]
    /\ UNCHANGED <<website, narrator, pc, violations, returned, previous, mapped_issues,
                   report, audit, extraction, fix_plan>>

NextConcurrent ==
    \E r \in RunIds :
        \/ \E site \in ConcurrentWebsites : Receive(r, site)
        \/ AuditRun(r)
        \/ Respond(r)

SpecConcurrent == InitConcurrent /\ [][NextConcurrent]_vars

-----------------------------------------------------------------------------
(* Claims *)

NumberOf(issues, sev) ==
    Cardinality({i \in 1..Len(issues) : issues[i].severity_level = sev})

\* C1: the report's compliance_score is max(0, 100 - (30*critical + 20*high +
\* 10*medium + 5*low)) over the numbers of issues of each severity in the list.
C1_ScoreFormula ==
    pc = "reported" =>
        LET penalty == 30 * NumberOf(mapped_issues, "critical")
                       + 20 * NumberOf(mapped_issues, "high")
                       + 10 * NumberOf(mapped_issues, "medium")
                       + 5 * NumberOf(mapped_issues, "low")
        IN  report.compliance_score = IF penalty >= 100 THEN 0 ELSE 100 - penalty

\* A report in which all four severities occur and the score is not clamped.
C1_Witness ==
    /\ pc = "reported"
    /\ \A sev \in Severities : NumberOf(mapped_issues, sev) > 0
    /\ report.compliance_score > 0

\* A report whose penalties exceed 100.
C1_WitnessClamped ==
    /\ pc = "reported"
    /\ NumberOf(mapped_issues, "critical") = 2
    /\ NumberOf(mapped_issues, "high") >= 3
    /\ report.compliance_score = 0

\* The requests with exactly one more failing rule check than site: the
\* scanner finds the same violations plus one.
OneMoreViolation(site) ==
    LET d == site.doc
    IN  (IF site.url = UrlHttps THEN {[site EXCEPT !.url = UrlHttp]} ELSE {})
        \cup {[site EXCEPT !.doc = e] : e \in
                (IF d.cookie_banner THEN {[d EXCEPT !.cookie_banner = FALSE]} ELSE {})
           \cup (IF d.privacy_link THEN {[d EXCEPT !.privacy_link = FALSE]} ELSE {})
           \cup (IF d.contact_text THEN {[d EXCEPT !.contact_text = FALSE]} ELSE {})
           \cup (IF d.images_no_alt = 0 THEN {[d EXCEPT !.images_no_alt = 1]} ELSE {})
           \cup (IF d.h1_count = SingleH1
                 THEN {[d EXCEPT !.h1_count = 0], [d EXCEPT !.h1_count = SingleH1 + 1]}
                 ELSE {})
           \cup (IF d.unlabeled_inputs = 0 THEN {[d EXCEPT !.unlabeled_inputs = 1]} ELSE {})
           \cup (IF d.generic_links = 0 THEN {[d EXCEPT !.generic_links = 1]} ELSE {})
           \cup (IF d.no_keyboard = 0 THEN {[d EXCEPT !.no_keyboard = 1]} ELSE {})
           \cup (IF d.landmarks >= LandmarkMinimum
                 THEN {[d EXCEPT !.landmarks = LandmarkMinimum - 1]} ELSE {})
           \cup (IF d.external_scripts = 0 THEN {[d EXCEPT !.external_scripts = 1]} ELSE {})
           \cup (IF d.meta_description THEN {[d EXCEPT !.meta_description = FALSE]} ELSE {})
           \cup (IF d.title THEN {[d EXCEPT !.title = FALSE]} ELSE {})}

\* The compliance_score the report of a request carries.
ScoreOf(site) ==
    compliance_score(
        map_violations_to_elements(site.doc, scan_website(<<>>, site.url, site.doc).value))

\* C2 as stated: the score is within [0,100] and adding one more issue of any
\* severity always yields a strictly smaller score.
C2_StrictlyDecreasing ==
    pc = "reported" =>
        /\ report.compliance_score \in 0..100
        /\ \A more \in OneMoreViolation(website) : ScoreOf(more) < report.compliance_score

\* C2 amended: the score is within [0,100]; adding one more issue never raises
\* it, and lowers it strictly whenever the score before was above 0 (at 0 the
\* clamp keeps it at 0).
C2_DecreasingUntilClamped ==
    pc = "reported" =>
        /\ report.compliance_score \in 0..100
        /\ \A more \in OneMoreViolation(website) :
               /\ ScoreOf(more) <= report.compliance_score
               /\ report.compliance_score > 0 => ScoreOf(more) < report.compliance_score

\* A report already clamped at 0 to which a further issue can be added.
C2_Witness ==
    /\ pc = "reported"
    /\ report.compliance_score = 0
    /\ \E more \in OneMoreViolation(website) : ScoreOf(more) = 0

\* C9 as stated: critical issues have priority 1, high issues 2..4, medium
\* issues 5..7 and low issues 8 or more.
C9_PriorityBands ==
    pc \in {"mapped", "reported"} =>
        \A i \in 1..Len(mapped_issues) :
            LET issue == mapped_issues[i]
            IN  /\ issue.severity_level = "critical" => issue.fix_priority = 1
                /\ issue.severity_level = "high" => issue.fix_priority \in 2..4
                /\ issue.severity_level = "medium" => issue.fix_priority \in 5..7
                /\ issue.severity_level = "low" => issue.fix_priority >= 8

\* C9 amended: critical issues have priority 1, high issues a priority in 2..5,
\* medium issues a priority in 5..7 and low issues priority 5 (every issue of the
\* generic mapping has priority 5, whatever its severity).
C9_PriorityBandsGeneric ==
    pc \in {"mapped", "reported"} =>
        \A i \in 1..Len(mapped_issues) :
            LET issue == mapped_issues[i]
            IN  /\ issue.severity_level = "critical" => issue.fix_priority = 1
                /\ issue.severity_level = "high" => issue.fix_priority \in 2..5
                /\ issue.severity_level = "medium" => issue.fix_priority \in 5..7
                /\ issue.severity_level = "low" => issue.fix_priority = 5

\* A mapped list holding a high issue and a low issue of the generic mapping,
\* next to a critical and a specifically mapped high issue.
C9_Witness ==
    /\ pc = "mapped"
    /\ \E i, j, k, l \in 1..Len(mapped_issues) :
           /\ mapped_issues[i].severity_level = "high" /\ mapped_issues[i].fix_priority = 5
           /\ mapped_issues[j].severity_level = "low" /\ mapped_issues[j].fix_priority = 5
           /\ mapped_issues[k].severity_level = "critical"
           /\ mapped_issues[l].severity_level = "high" /\ mapped_issues[l].fix_priority = 3

\* The issues sorted by severity rank, ties kept in output order.
BySeverityRank(issues) ==
    SelectSeverity(issues, {"critical"}) \o SelectSeverity(issues, {"high"})
    \o SelectSeverity(issues, {"medium"}) \o SelectSeverity(issues, {"low"})

\* C10: the fix_priority values of the mapper's output are non-decreasing when
\* the issues are sorted by severity rank, ties kept in output order.
C10_PriorityFollowsSeverity ==
    pc \in {"mapped", "reported"} =>
        LET ranked == BySeverityRank(mapped_issues)
        IN  \A i \in 1..Len(ranked) - 1 : ranked[i].fix_priority <= ranked[i + 1].fix_priority

\* A mapped list with all four severities in which the scanner found a
\* generically mapped high issue before a specifically mapped one.
C10_Witness ==
    /\ pc = "mapped"
    /\ \A sev \in Severities : NumberOf(mapped_issues, sev) > 0
    /\ \E i, j \in 1..Len(returned.value) :
           /\ i < j
           /\ returned.value[i].type = "gdpr_privacy_policy"
           /\ returned.value[j].type = "wcag_missing_alt"

-----------------------------------------------------------------------------
(* Claims on the audit run (Spec) *)

\* Scanner, mapper and advisor all returned for the request.
StageOneSucceeded == ~scan_website(<<>>, website.url, website.doc).raised

\* The crew roles whose collaborator call returns.
RolesSucceeding == {t \in CrewRoles : narrator.tasks[t] = "ok"}

AuditStatus == audit.value.multi_agent_analysis.status

\* The mapped issues of the technical stages alone, as the report carries them.
TechnicalIssues ==
    LET issues == map_violations_to_elements(website.doc,
                      scan_website(<<>>, website.url, website.doc).value)
    IN  [i \in 1..Len(issues) |-> _mapped_issue_to_dict(issues[i])]

KeepsTechnicalIssues ==
    /\ "mapped_violations" \in DOMAIN audit.value.mapped_issues
    /\ audit.value.mapped_issues.mapped_violations = TechnicalIssues

\* C3: the status is 'completed' exactly when all four roles succeeded,
\* 'partial' when at least one but not all did, and 'failed' only when a
\* deterministic stage (scanner, mapper or advisor) threw.
C3_StatusByRoles ==
    pc = "audited" =>
        /\ AuditStatus = "completed" <=> (StageOneSucceeded /\ RolesSucceeding = CrewRoles)
        /\ (StageOneSucceeded /\ RolesSucceeding # {} /\ RolesSucceeding # CrewRoles)
               => AuditStatus = "partial"
        /\ AuditStatus = "failed" => ~StageOneSucceeded

\* C4: when the call of one role fails, the run continues: it is not aborted
\* and the results of the deterministic stages are kept.
C4_RoleFailureIsolated ==
    (pc = "audited" /\ StageOneSucceeded /\ Cardinality(CrewRoles \ RolesSucceeding) = 1)
        => (AuditStatus # "failed" /\ KeepsTechnicalIssues)

\* C5: when stage 1 succeeded and all four roles fail, the report has status
\* 'partial' and its mapped issues are those of the technical stages alone.
C5_AllRolesFailPartial ==
    (pc = "audited" /\ StageOneSucceeded /\ RolesSucceeding = {})
        => (AuditStatus = "partial" /\ KeepsTechnicalIssues)

\* The report is a combined report: its sections hold the results of the
\* deterministic stages (the scanner's violations, the mapped issues and the
\* remediation plan) and not the error markers of _handle_crew_error.
CombinedReportReceived ==
    /\ ~audit.raised
    /\ "error" \notin DOMAIN audit.value.violation_report
    /\ KeepsTechnicalIssues
    /\ "technical_solutions" \in DOMAIN audit.value.remediation_plan

\* C6: the caller of an audit run receives a combined report and no exception,
\* except when a deterministic stage (scanner, mapper or advisor) fails, which
\* reaches the caller as one typed error naming the stage.
C6_TypedStageError ==
    pc = "audited" =>
        /\ StageOneSucceeded => CombinedReportReceived
        /\ ~StageOneSucceeded => (audit.raised /\ audit.exc = "PipelineError")

-----------------------------------------------------------------------------
(* Claims on the scanner (SpecScanner) *)

HasViolation(vs, type) == \E i \in 1..Len(vs) : vs[i].type = type

\* C8: two scans in a row of the same document and URL on one instance yield
\* identical outcomes (the same violations, field by field, in the same order),
\* whatever the instance scanned before.
C8_ScanDeterministic ==
    (pc = "scanned" /\ previous.repeated) => previous.identical

\* The same request scanned twice in a row, after a scan of another document,
\* returning two or more violations.
C8_Witness ==
    /\ pc = "scanned"
    /\ previous.repeated
    /\ previous.earlier
    /\ ~returned.raised
    /\ Len(returned.value) >= 2

-----------------------------------------------------------------------------
(* Claims on the narrative extractors (SpecExtractor) *)

\* The field of a role's record that summarises it.
SummaryField(role) ==
    CASE role = "violations"             -> "raw_findings"
      [] role = "legal_updates"          -> "update_summary"
      [] role = "risk_assessment"        -> "risk_summary"
      [] role = "implementation_roadmap" -> "roadmap_summary"

\* C11: the extractor never throws, whatever the narrative text and the
\* answer of the language model (the empty text and the block '{}' included),
\* and the record it returns for a role always holds a non-empty summary field.
C11_SummaryAlwaysPresent ==
    pc = "extracted" =>
        /\ extraction.result.tier \in {"strict", "heuristic", "default"}
        /\ SummaryField(extraction.role) \in DOMAIN extraction.result.value
        /\ extraction.result.value[SummaryField(extraction.role)] # ""

\* Number of times the item occurs in the list.
Occurrences(list, item) == Cardinality({i \in 1..Len(list) : list[i] = item})

\* The narrative items of a category that a technical violation of the same
\* category already describes.
SharedItems(category) ==
    LET narrative == Get(Get(extraction.result.value, "by_category", EmptyDict), category, <<>>)
    IN  {narrative[i] : i \in 1..Len(narrative)}
        \cap {returned.value[i].description :
                  i \in {j \in 1..Len(returned.value) :
                             violation_category(returned.value[j].type) = category}}

\* C12: merging the technical violations with the narrative violation record
\* keeps one entry per (category, description) pair: a description both sides
\* report for a category is listed once, and the merged total counts it once.
C12_MergeDeduplicates ==
    pc = "combined" =>
        \A c \in {"gdpr", "wcag", "ada", "security", "seo"} :
            \A d \in SharedItems(c) :
                /\ Occurrences(report.by_category[c], d) = 1
                /\ report.total_violations
                       < Len(returned.value)
                         + Get(extraction.result.value, "total_violations", 0)

\* C13: extracting twice for the same role from the same narrative text, on
\* the same auditor, yields identical output.
C13_ExtractorIdempotent ==
    (pc = "extracted" /\ extraction.repeated) => extraction.identical

-----------------------------------------------------------------------------
(* Claims on the remediation advisor (SpecAdvisor) *)

GenericFixDescription == "General compliance improvement needed"

\* C14: the plan holds exactly one fix per issue, total_fixes is the number of
\* issues, and every fix, the generic one included, has a non-empty
\* fix_description.
C14_OneFixPerIssue ==
    pc = "planned" =>
        /\ fix_plan.total_fixes = Len(mapped_issues)
        /\ Len(fix_plan.fixes) = Len(mapped_issues)
        /\ \A i \in 1..Len(fix_plan.fixes) :
               /\ fix_plan.fixes[i] = _generate_specific_fix(mapped_issues[i].issue_type,
                                                         mapped_issues[i])
               /\ fix_plan.fixes[i].fix_description # ""

\* A plan for MaxIssues issues with a generic fix next to a fix of a template.
C14_Witness ==
    /\ pc = "planned"
    /\ Len(mapped_issues) = MaxIssues
    /\ fix_plan.total_fixes = MaxIssues
    /\ \E i, j \in 1..Len(fix_plan.fixes) :
           /\ fix_plan.fixes[i].fix_description = GenericFixDescription
           /\ fix_plan.fixes[i].issue_type = mapped_issues[i].issue_type
           /\ fix_plan.fixes[j].issue_type = "HTTPS Security"

-----------------------------------------------------------------------------
(* Scenario claims on the pipeline (SpecPipeline) *)

\* C15: a document with three images without alt text, served over http,
\* yields at least two violations, wcag_missing_alt and security_no_https among
\* them, a report with at least one critical issue and a compliance_score of
\* at most 70.
C15_AltAndTransportScenario ==
    (website.doc.images_no_alt = 3 /\ website.url = UrlHttp) =>
        /\ pc \in {"scanned", "mapped", "reported"} =>
               /\ ~returned.raised
               /\ Len(returned.value) >= 2
               /\ HasViolation(returned.value, "wcag_missing_alt")
               /\ HasViolation(returned.value, "security_no_https")
        /\ pc = "reported" =>
               /\ report.severity_breakdown["critical"] >= 1
               /\ report.compliance_score <= 70

\* The report of the scenario's document when nothing else is wrong with it:
\* exactly the two violations.
C15_Witness ==
    /\ pc = "reported"
    /\ website.doc.images_no_alt = 3
    /\ website.url = UrlHttp
    /\ Len(returned.value) = 2
    /\ report.total_issues = 2
    /\ report.severity_breakdown["critical"] = 1

\* C16: a document that passes every rule check yields an empty violation
\* list, and its report has total_issues = 0 and compliance_score = 100.
C16_CompliantDocument ==
    (Defects(website.doc) = 0 /\ website.url = UrlHttps) =>
        /\ pc \in {"scanned", "mapped", "reported"} =>
               ~returned.raised /\ returned.value = <<>>
        /\ pc = "reported" =>
               report.total_issues = 0 /\ report.compliance_score = 100

\* The report of a request that passes every check.
C16_Witness ==
    /\ pc = "reported"
    /\ Defects(website.doc) = 0
    /\ website.url = UrlHttps
    /\ report.total_issues = 0

-----------------------------------------------------------------------------
(* Claims on concurrent requests (SpecConcurrent) *)

RunOver(r) == runs.request[r].pc \in {"audited", "responded"}

\* C17: under every interleaving of the runs, the output of a run and the
\* violations list of its scanner instance are those of an audit of its own
\* document alone, and no two runs use the same scanner instance.
C17_RunsIsolated ==
    \A r \in RunIds :
        RunOver(r) =>
            LET run == runs.request[r]
            IN  /\ run.audit = audit_website_with_agents(<<>>, run.site, narrator)
                /\ runs.scanners[run.scanner]
                       = scan_website(<<>>, run.site.url, run.site.doc).value
                /\ \A i \in 1..Len(runs.scanners[run.scanner]) :
                       HasViolation(scan_website(<<>>, run.site.url, run.site.doc).value,
                                    runs.scanners[run.scanner][i].type)
                /\ \A o \in RunIds \ {r} :
                       RunOver(o) => runs.request[o].scanner # run.scanner

\* Two runs for different documents, both received before either was audited
\* or one still in flight, whose scanners hold different non-empty lists.
C17_Witness ==
    \E r, o \in RunIds :
        /\ r # o
        /\ runs.request[r].pc = "responded"
        /\ runs.request[o].pc = "audited"
        /\ runs.request[r].site.doc # runs.request[o].site.doc
        /\ runs.scanners[runs.request[r].scanner] # <<>>
        /\ runs.scanners[runs.request[o].scanner] # <<>>
        /\ runs.scanners[runs.request[r].scanner] # runs.scanners[runs.request[o].scanner]

\* Position of a violation type's rule in the order the rules are declared
\* (the two heading rules share a position).
RuleRank(type) ==
    CASE type = "gdpr_cookie_banner"        -> 1
      [] type = "gdpr_privacy_policy"       -> 2
      [] type = "gdpr_contact_info"         -> 3
      [] type = "wcag_missing_alt"          -> 4
      [] type \in {"wcag_missing_h1", "wcag_multiple_h1"} -> 5
      [] type = "wcag_unlabeled_inputs"     -> 6
      [] type = "wcag_generic_links"        -> 7
      [] type = "ada_keyboard_access"       -> 8
      [] type = "ada_missing_landmarks"     -> 9
      [] type = "security_no_https"         -> 10
      [] type = "security_external_scripts" -> 11
      [] type = "seo_missing_meta_desc"     -> 12
      [] type = "seo_missing_title"         -> 13

\* C18: the violations scan_website returns are in rule-declaration order: of
\* any two, the one of the rule declared earlier comes first.
C18_RuleDeclarationOrder ==
    pc \in {"scanned", "mapped", "reported"} =>
        \A i, j \in 1..Len(returned.value) :
            i < j => RuleRank(returned.value[i].type) <= RuleRank(returned.value[j].type)

\* A scan that found a violation of each of the five checks.
C18_Witness ==
    /\ pc = "scanned"
    /\ HasViolation(returned.value, "gdpr_privacy_policy")
    /\ HasViolation(returned.value, "wcag_multiple_h1")
    /\ HasViolation(returned.value, "ada_missing_landmarks")
    /\ HasViolation(returned.value, "security_no_https")
    /\ HasViolation(returned.value, "seo_missing_title")

-----------------------------------------------------------------------------
(* Claims on the tiers of the extractors (SpecExtractor) *)

\* C20: for every role, the decoded block is returned as it is only when it
\* holds the role's required top-level fields; a well-formed block lacking one
\* falls through to the heuristic tier.
C20_StrictTierValidates ==
    pc \in {"extracted", "combined"} =>
        /\ extraction.result.tier = "strict" =>
               prompt_fields(extraction.role) \subseteq DOMAIN extraction.result.value
        /\ (/\ ~extraction.answer.raises
            /\ extraction.answer.block \in {"empty", "partial"}) =>
               extraction.result.tier = "heuristic"

-----------------------------------------------------------------------------
(* Claims on the crew of an audit run (Spec) *)

\* C19: in a run whose deterministic stages and collaborator calls all
\* succeed, the four roles are invoked one after another in the fixed order
\* compliance, legal, mapping, roadmap: exactly four invocations.
C19_FourRolesInOrder ==
    (pc = "audited" /\ StageOneSucceeded /\ RolesSucceeding = CrewRoles) =>
        audit.invoked = <<"compliance_task", "legal_task", "mapping_task", "roadmap_task">>


-----------------------------------------------------------------------------
(* The lists of the heuristic tier *)

\* The list fields of the record an extractor returns for the role.
ListsOf(role, value) ==
    CASE role = "violations" ->
             {value.by_category[c] : c \in DOMAIN value.by_category}
      [] role = "legal_updates" ->
             {value.recent_updates, value.relevant_regulations, value.enforcement_trends,
              value.compliance_deadlines, value.regional_variations}
      [] role = "risk_assessment" -> {value.risk_factors, value.potential_penalties}
      [] role = "implementation_roadmap" ->
             {value[required_sections[i]] : i \in 1..Len(required_sections)}

\* C21: in the heuristic tier every extracted list of the returned record
\* holds at most its cap of items, and no cap is above six, however many
\* sentences of the text match the keywords of the list.
C21_HeuristicListsCapped ==
    (pc \in {"extracted", "combined"} /\ extraction.result.tier = "heuristic")
        => \A list \in ListsOf(extraction.role, extraction.result.value) :
               Len(list) <= RiskFactorCap

\* The sum of the lengths of the lists of a by_category dict.
CategoryItems(by_category) ==
    Len(by_category["gdpr"]) + Len(by_category["accessibility"]) + Len(by_category["wcag"])
    + Len(by_category["seo"]) + Len(by_category["security"])

\* C30: the record of the heuristic violation parser has total_violations =
\* the sum of the lengths of the by_category lists = the sum of the four
\* severity_breakdown counts.
C30_HeuristicCountsAgree ==
    (pc \in {"extracted", "combined"} /\ extraction.role = "violations"
     /\ extraction.result.tier = "heuristic")
        => LET value == extraction.result.value
           IN  /\ value.total_violations = CategoryItems(value.by_category)
               /\ value.total_violations
                      = value.severity_breakdown["critical"] + value.severity_breakdown["high"]
                        + value.severity_breakdown["medium"] + value.severity_breakdown["low"]

\* The parser counted a sentence that names its severity and sentences that
\* name none, in two categories.
C30_Witness ==
    /\ pc = "extracted" /\ extraction.role = "violations"
    /\ extraction.result.tier = "heuristic"
    /\ extraction.result.value.severity_breakdown["critical"] >= 1
    /\ extraction.result.value.severity_breakdown["medium"] >= 1
    /\ extraction.result.value.by_category["wcag"] # <<>>
    /\ extraction.result.value.by_category["gdpr"] # <<>>

\* Neither tier finds anything usable: the answer holds no block that decodes
\* and, like the crew's text, no sentence at all.
NothingUsable ==
    /\ pc = "extracted"
    /\ ~extraction.answer.raises
    /\ extraction.answer.prose = <<>>
    /\ extraction.answer.block \in {"none", "malformed"}
    /\ extraction.crew_result = <<>>

\* C22: when neither tier finds anything usable in the text, the extractor
\* returns a non-empty summary string and an empty list for every list field.
C22_NothingUsableGivesEmptyLists ==
    NothingUsable
        => /\ extraction.result.value[SummaryField(extraction.role)] # ""
           /\ \A list \in ListsOf(extraction.role, extraction.result.value) : list = <<>>

\* C22 as the code has it: with nothing usable the record holds a non-empty
\* summary; every list is empty for the violations and the legal updates,
\* the risk assessment has no risk factor, the medium level and the four
\* standard penalties, and each section of the roadmap holds its default
\* actions.
C22_NothingUsableGivesDefaults ==
    NothingUsable
        => LET role  == extraction.role
               value == extraction.result.value
           IN  /\ value[SummaryField(role)] # ""
               /\ role \in {"violations", "legal_updates"}
                      => \A list \in ListsOf(role, value) : list = <<>>
               /\ role = "risk_assessment"
                      => /\ value.risk_factors = <<>>
                         /\ value.overall_risk_level = "medium"
                         /\ Len(value.potential_penalties) = PenaltyCap
               /\ role = "implementation_roadmap"
                      => \A i \in 1..Len(required_sections) :
                             /\ value[required_sections[i]] # <<>>
                             /\ value[required_sections[i]]
                                    = _generate_default_actions(required_sections[i], <<>>)

\* The risk parser read a text without a sentence.
C22_Witness ==
    /\ NothingUsable
    /\ extraction.role = "risk_assessment"
    /\ extraction.result.tier = "heuristic"
    /\ extraction.answer.block = "malformed"

-----------------------------------------------------------------------------
(* Claims on the effort estimate (SpecAdvisor) *)

\* The hours the claim gives a fix: N for 'N hours' and 8*N for 'N days',
\* written out for the strings of the templates, and 2 for any other string.
ClaimedHours(time_str) ==
    CASE time_str = "2 hours" -> 2
      [] time_str = "3 hours" -> 3
      [] time_str = "4 hours" -> 4
      [] time_str = "1 day"   -> 8
      [] OTHER                -> 2

RECURSIVE ClaimedTotal(_)
ClaimedTotal(fixes) ==
    IF fixes = <<>> THEN 0
    ELSE ClaimedHours(Head(fixes).estimated_time) + ClaimedTotal(Tail(fixes))

\* C23: the total-effort estimate is the sum over the fixes of N for an
\* effort string 'N hours', 8*N for 'N days' and 2 hours for any string that
\* cannot be parsed; no fix contributes 0 hours.
C23_EffortSum ==
    pc = "planned"
        => /\ fix_plan.estimated_total_time
                  = ToString(ClaimedTotal(fix_plan.fixes)) \o " hours"
           /\ \A i \in 1..Len(fix_plan.fixes) :
                  /\ fix_plan.fixes[i].estimated_time \in EffortStrings
                  /\ EffortHours(fix_plan.fixes[i].estimated_time) > 0

\* A plan of three fixes that holds the one-day fix next to fixes of two
\* different numbers of hours.
C23_Witness ==
    /\ pc = "planned"
    /\ Len(fix_plan.fixes) = 3
    /\ \E i, j, k \in 1..Len(fix_plan.fixes) :
           /\ fix_plan.fixes[i].estimated_time = "1 day"
           /\ fix_plan.fixes[j].estimated_time = "3 hours"
           /\ fix_plan.fixes[k].estimated_time = "2 hours"
    /\ fix_plan.estimated_total_time = "13 hours"

-----------------------------------------------------------------------------
(* Claims on the plan of the advisor (SpecAdvisor) *)

\* The category of a fix kind as the claim groups the hard-coded list: consent
\* and encryption, then alt text, form labels and keyboard, then meta tags,
\* and last the kinds that are not on the list.
CategoryRank(kind) ==
    IF kind \in {"GDPR Cookie Consent Banner", "HTTPS Security"} THEN 1
    ELSE IF kind \in {"Image Alt Text", "Form Input Labels", "Keyboard Accessibility"} THEN 2
    ELSE IF kind = "SEO Meta Tags" THEN 3
    ELSE 4

\* The place of a fix kind in the hard-coded list itself, one past its end
\* for a kind that is not on it.
ListPosition(kind) ==
    IF InSeq(kind, priority_order_names)
    THEN CHOOSE i \in 1..Len(priority_order_names) : priority_order_names[i] = kind
    ELSE Len(priority_order_names) + 1

\* The index of the first fix of the kind.
FirstAppearance(fixes, kind) ==
    CHOOSE i \in 1..Len(fixes) :
        /\ fixes[i].issue_type = kind
        /\ \A j \in 1..(i - 1) : fixes[j].issue_type # kind

\* Each distinct fix kind of the plan is listed exactly once.
ListsEachKindOnce ==
    /\ {fix_plan.priority_order[i] : i \in 1..Len(fix_plan.priority_order)}
           = {fix_plan.fixes[i].issue_type : i \in 1..Len(fix_plan.fixes)}
    /\ \A i, j \in 1..Len(fix_plan.priority_order) :
           i # j => fix_plan.priority_order[i] # fix_plan.priority_order[j]

\* C24 as stated: priority_order lists each distinct fix kind exactly once,
\* ordered first by category (consent and encryption, then alt text, form
\* labels and keyboard, then meta tags, kinds off the list last) and, within
\* the same category, by order of first appearance in the fixes.
C24_CategoryOrder ==
    pc = "planned" =>
        /\ ListsEachKindOnce
        /\ \A i, j \in 1..Len(fix_plan.priority_order) :
               i < j =>
                   \/ CategoryRank(fix_plan.priority_order[i])
                          < CategoryRank(fix_plan.priority_order[j])
                   \/ /\ CategoryRank(fix_plan.priority_order[i])
                             = CategoryRank(fix_plan.priority_order[j])
                      /\ FirstAppearance(fix_plan.fixes, fix_plan.priority_order[i])
                             < FirstAppearance(fix_plan.fixes, fix_plan.priority_order[j])

\* C24 amended: priority_order lists each distinct fix kind exactly once, the
\* kinds of the hard-coded list in the order of that list entry by entry
\* (consent, encryption, alt text, form labels, keyboard, meta tags) whatever
\* their order in the fixes, and the kinds that are not on the list last, in
\* order of first appearance in the fixes.
C24_PriorityOrder ==
    pc = "planned" =>
        /\ ListsEachKindOnce
        /\ \A i, j \in 1..Len(fix_plan.priority_order) :
               i < j =>
                   \/ ListPosition(fix_plan.priority_order[i])
                          < ListPosition(fix_plan.priority_order[j])
                   \/ /\ ListPosition(fix_plan.priority_order[i]) > Len(priority_order_names)
                      /\ ListPosition(fix_plan.priority_order[j]) > Len(priority_order_names)
                      /\ FirstAppearance(fix_plan.fixes, fix_plan.priority_order[i])
                             < FirstAppearance(fix_plan.fixes, fix_plan.priority_order[j])

\* A plan whose first fix is of a kind off the list, followed by the
\* encryption fix and the consent fix: the two kinds of the first category
\* come out in the order of the list, not in that of their appearance.
C24_Witness ==
    /\ pc = "planned"
    /\ Len(fix_plan.fixes) = 3
    /\ ListPosition(fix_plan.fixes[1].issue_type) > Len(priority_order_names)
    /\ fix_plan.fixes[2].issue_type = "HTTPS Security"
    /\ fix_plan.fixes[3].issue_type = "GDPR Cookie Consent Banner"
    /\ fix_plan.priority_order
           = <<"GDPR Cookie Consent Banner", "HTTPS Security", fix_plan.fixes[1].issue_type>>

-----------------------------------------------------------------------------
(* Claims on the plan for the mapper's issues (SpecPipeline) *)

\* The kinds of the fixes of the issues of one severity, in list order.
RECURSIVE FixKindsOfSeverity(_, _, _)
FixKindsOfSeverity(fixes, issues, severity) ==
    IF fixes = <<>> THEN <<>>
    ELSE (IF Head(issues).severity_level = severity THEN <<Head(fixes).issue_type>> ELSE <<>>)
         \o FixKindsOfSeverity(Tail(fixes), Tail(issues), severity)

\* C25: the phases bucket every fix by the severity of the issue it fixes: the
\* fixes of the critical issues make the first phase, those of the high
\* issues the second, the fix of a medium issue is in the third, and each fix
\* is in exactly one phase.
C25_PhasesBySeverity ==
    pc \in {"remediated", "reported"} =>
        LET roadmap == fix_plan.implementation_roadmap
            fixes   == fix_plan.fixes
        IN  /\ roadmap.phase_1_critical = FixKindsOfSeverity(fixes, mapped_issues, "critical")
            /\ roadmap.phase_2_high = FixKindsOfSeverity(fixes, mapped_issues, "high")
            /\ \A i \in 1..Len(fixes) :
                   mapped_issues[i].severity_level = "medium"
                       => InSeq(fixes[i].issue_type, roadmap.phase_3_medium)
            /\ Len(roadmap.phase_1_critical) + Len(roadmap.phase_2_high)
                   + Len(roadmap.phase_3_medium) = Len(fixes)

\* C29: no key of the fix-template table is a substring of the issue_type of
\* an issue the mapper builds from the scanner's violations, so the plan for
\* them holds generic fixes only, its total effort is 2 hours per issue, and
\* every fix is in the last phase.
C29_MapperIssuesGetGenericFixes ==
    pc \in {"remediated", "reported"} =>
        /\ \A i \in 1..Len(mapped_issues) : \A k \in 1..Len(fix_templates) :
               ~Contains(mapped_issues[i].issue_type, fix_templates[k][1])
        /\ Len(fix_plan.fixes) = Len(mapped_issues)
        /\ \A i \in 1..Len(fix_plan.fixes) :
               /\ fix_plan.fixes[i].issue_type = mapped_issues[i].issue_type
               /\ fix_plan.fixes[i].fix_description = GenericFixDescription
               /\ fix_plan.fixes[i].estimated_time = "2 hours"
        /\ fix_plan.estimated_total_time = ToString(2 * Len(mapped_issues)) \o " hours"
        /\ fix_plan.implementation_roadmap.phase_1_critical = <<>>
        /\ fix_plan.implementation_roadmap.phase_2_high = <<>>
        /\ fix_plan.implementation_roadmap.phase_3_medium
               = [i \in 1..Len(mapped_issues) |-> mapped_issues[i].issue_type]

\* The plan for a page without a consent banner that is served without
\* encryption: the issues of two rules that have a fix template.
C29_Witness ==
    /\ pc = "remediated"
    /\ Len(mapped_issues) >= 2
    /\ \E i, j \in 1..Len(mapped_issues) :
           /\ mapped_issues[i].issue_type = "Missing GDPR-compliant cookie consent mechanism"
           /\ mapped_issues[j].issue_type = "Website not served over HTTPS"
    /\ fix_plan.total_fixes = Len(mapped_issues)

\* C28: the mapper returns one issue per violation of the scanner, each with
\* the severity the scanner gave its violation, so the severity_breakdown of
\* the report is the scanner's get_severity_breakdown and total_issues is the
\* sum of the four severity counts.
C28_MapperKeepsSeverities ==
    /\ pc \in {"mapped", "remediated", "reported"} =>
           /\ Len(mapped_issues) = Len(returned.value)
           /\ \A i \in 1..Len(returned.value) :
                  map_violations_to_elements_unsorted(website.doc, returned.value)[i].severity_level
                      = returned.value[i].severity
           /\ severity_counts(mapped_issues) = get_severity_breakdown(returned.value)
    /\ pc = "reported" =>
           /\ report.severity_breakdown = get_severity_breakdown(returned.value)
           /\ report.total_issues
                  = report.severity_breakdown["critical"] + report.severity_breakdown["high"]
                    + report.severity_breakdown["medium"] + report.severity_breakdown["low"]

\* The report of a page served without encryption that also fails a rule of
\* the generic mapping: a literal severity of the mapper next to a copied one.
C28_Witness ==
    /\ pc = "reported"
    /\ Len(returned.value) >= 2
    /\ \E i, j \in 1..Len(returned.value) :
           /\ returned.value[i].type = "security_no_https"
           /\ returned.value[j].type = "seo_missing_meta_desc"
    /\ report.severity_breakdown["critical"] >= 1
    /\ report.severity_breakdown["low"] >= 1
    /\ report.total_issues = Len(returned.value)

-----------------------------------------------------------------------------
(* Claims on the run of the audit (Spec) *)

\* C27: in every run in which scanning, mapping and remediation planning
\* succeed, building the technical summary fails on the key
\* 'auto_implementable' the plan does not have; no collaborator task is
\* created or run, and the run returns the failed report of
\* _handle_crew_error, whatever the document.
C27_SummaryAlwaysFails ==
    (pc = "audited" /\ StageOneSucceeded) =>
        LET scan   == scan_website(<<>>, website.url, website.doc)
            issues == map_violations_to_elements(website.doc, scan.value)
            plan   == generate_remediation_plan(issues)
        IN  /\ ~HasKey(plan, "auto_implementable")
            /\ _create_technical_summary(scan.value, issues, plan)
                   = Raised("KeyError", "'auto_implementable'", <<>>)
            /\ audit.invoked = <<>>
            /\ ~audit.raised
            /\ audit.value = _handle_crew_error("'auto_implementable'", website)
            /\ AuditStatus = "failed"

\* The audit of a page with defects, every collaborator call ready to answer.
C27_Witness ==
    /\ pc = "audited"
    /\ StageOneSucceeded
    /\ RolesSucceeding = CrewRoles
    /\ Len(audit.violations) >= 2
    /\ AuditStatus = "failed"
    /\ audit.value.multi_agent_analysis.error_details = "'auto_implementable'"

-----------------------------------------------------------------------------
(* Claims on the merged risk assessment (SpecExtractor) *)

\* C26: in the merged risk assessment the severity distribution and the
\* compliance score are those of the technical compliance report, whatever
\* the narrative holds; the narrative gives the qualitative fields only.
C26_RiskKeepsTechnicalNumbers ==
    pc = "enhanced" =>
        LET technical == generate_compliance_report(
                             map_violations_to_elements(website.doc, returned.value))
            narrative == extraction.result.value
        IN  /\ report.compliance_score = technical.compliance_score
            /\ report.technical_risk_breakdown = technical.severity_breakdown
            /\ DOMAIN report
                   = {"overall_risk_level", "risk_factors", "potential_penalties",
                      "business_impact", "compliance_score", "technical_risk_breakdown",
                      "risk_summary"}
            /\ \A field \in {"overall_risk_level", "risk_factors", "potential_penalties",
                               "business_impact", "risk_summary"} :
                   field \in DOMAIN narrative => report[field] = narrative[field]

\* A narrative that names risk factors and the level 'high' merged with the
\* report of a page that fails a rule.
C26_Witness ==
    /\ pc = "enhanced"
    /\ report.risk_factors # <<>>
    /\ report.overall_risk_level = "high"
    /\ returned.value # <<>>
    /\ report.compliance_score < max_possible_score
    /\ report.technical_risk_breakdown = get_severity_breakdown(returned.value)
====
